---- MODULE Spec2Model ----
(***************************************************************************)
(* KimchiLang compiler: the cross-module registries (src/src/index.js,     *)
(* src/src/typechecker.js), the compile pipeline, the type checker's       *)
(* export/dep rules and the parser's guards (src/unnamed/part_000).        *)
(*                                                                         *)
(* A source file is modelled after scanning as the sequence of its         *)
(* top-level statements, each statement a record shaped like the AST node  *)
(* the parser builds for it (field names are the AST's).                   *)
(***************************************************************************)
EXTENDS Integers, Sequences, FiniteSets, TLC

VARIABLES
  moduleRegistry,      \* index.js: const moduleRegistry = new Map()   path -> required args
  moduleTypeRegistry,  \* typechecker.js: const moduleTypeRegistry = new Map()   path -> type
  op,                  \* the last call made and what it returned or threw
  input                \* the source under test, where a specification fixes one

vars == <<moduleRegistry, moduleTypeRegistry, op, input>>

(***************************************************************************)
(* Bounds of the model.                                                    *)
(***************************************************************************)
MaxStmts == 2          \* statements per source file
MaxJsStmts == 2        \* JavaScript statements per js block
MaxLookahead == 4      \* tokens after the `|` the parser stands on
MaxCalls == 3          \* calls made to one emitted function
MaxMembers == 3        \* members of an enum
MaxChars == 3          \* characters of source text after a `/`

(***************************************************************************)
(* Maps (JS Map / plain object): functions with a finite domain.           *)
(***************************************************************************)
EmptyMap == [k \in {} |-> {}]

MapSet(m, k, v) == [x \in (DOMAIN m) \cup {k} |-> IF x = k THEN v ELSE m[x]]

\* JS null / undefined module path (falsy)
NoPath == ""

\* an absent AST child (null)
NoNode == [type |-> "None"]

(***************************************************************************)
(* Types of the checker (typechecker.js Type, createType, ...).            *)
(***************************************************************************)
createType(kind) == [kind |-> kind]

createObjectType(properties) == [kind |-> "object", properties |-> properties]

createFunctionType == [kind |-> "function"]

(***************************************************************************)
(* AST constructors (src/unnamed/part_000, the parser's node shapes).      *)
(***************************************************************************)
\* value is the literal's raw text
Lit(kind) ==
  [type |-> "Literal", isNumber |-> kind = "number", isString |-> kind = "string",
   value |-> IF kind = "number" THEN "1" ELSE "s"]

Id(name) == [type |-> "Identifier", name |-> name]

\* parseCall: a non-computed member keeps its property as a string
Member(object, property) ==
  [type |-> "MemberExpression", object |-> object, property |-> property, computed |-> FALSE]

\* parseCall: a computed member keeps its property as an expression
Index(object, property) ==
  [type |-> "MemberExpression", object |-> object, property |-> property, computed |-> TRUE]

Property(key, value) == [type |-> "Property", key |-> key, value |-> value]

SpreadElement(argument) == [type |-> "SpreadElement", argument |-> argument]

ObjectExpression(properties) == [type |-> "ObjectExpression", properties |-> properties]

AssignmentExpression(operator, left, right) ==
  [type |-> "AssignmentExpression", operator |-> operator, left |-> left, right |-> right]

DecDeclaration(name, init, exposed) ==
  [type |-> "DecDeclaration", name |-> name, init |-> init, exposed |-> exposed,
   destructuring |-> FALSE]

\* dec { key: value, ... } = init
DecObjectPattern(properties, init, exposed) ==
  [type |-> "DecDeclaration", init |-> init, exposed |-> exposed, destructuring |-> TRUE,
   pattern |-> [type |-> "ObjectPattern", properties |-> properties]]

\* dec [a, , b] = init   (a hole is NoNode)
DecArrayPattern(elements, init, exposed) ==
  [type |-> "DecDeclaration", init |-> init, exposed |-> exposed, destructuring |-> TRUE,
   pattern |-> [type |-> "ArrayPattern", elements |-> elements]]

FunctionDeclaration(name, exposed) ==
  [type |-> "FunctionDeclaration", name |-> name, exposed |-> exposed]

ArgDeclaration(name, required, defaultValue) ==
  [type |-> "ArgDeclaration", name |-> name, required |-> required,
   defaultValue |-> defaultValue]

EnvDeclaration(name, required) ==
  [type |-> "EnvDeclaration", name |-> name, required |-> required]

DepStatement(alias, path, overrides) ==
  [type |-> "DepStatement", alias |-> alias, path |-> path, overrides |-> overrides]

PrintStatement(argument) == [type |-> "PrintStatement", argument |-> argument]

ExpressionStatement(expression) == [type |-> "ExpressionStatement", expression |-> expression]

\* source text holding a character the scanner rejects (a lone & or ^)
IllegalText == [type |-> "IllegalText"]

(***************************************************************************)
(* The type checker (src/src/typechecker.js).                              *)
(* Checker state st: scope (scopes[0]), errors, moduleExports, functions.  *)
(* errors is kept as the set of the diagnostics pushed.                    *)
(***************************************************************************)
builtins == {"console", "Math", "JSON"}

\* override keys holding a dot ("foo.bar": mock) name inner deps
DottedKeys == {"m.x"}

getModuleTypeNull(registry, modulePath) == NoNode

\* static getModuleType: moduleTypeRegistry.get(modulePath) || null
getModuleType(registry, modulePath) ==
  IF modulePath \in DOMAIN registry THEN registry[modulePath] ELSE NoNode

registerModuleTypeOnly(registry, modulePath, exportType) ==
  [x \in {modulePath} |-> exportType]

\* static registerModuleType: moduleTypeRegistry.set(modulePath, exportType)
registerModuleType(registry, modulePath, exportType) ==
  MapSet(registry, modulePath, exportType)

\* static clearRegistry: moduleTypeRegistry.clear()
clearRegistry(registry) == EmptyMap

hasProperties(type) == type.kind = "object"

RECURSIVE isCompatible(_, _)
isCompatible(expected, actual) ==
  IF expected.kind \in {"any", "unknown"} \/ actual.kind \in {"any", "unknown"} THEN TRUE
  ELSE IF expected.kind = actual.kind
  THEN IF expected.kind = "object"
       THEN \A key \in DOMAIN expected.properties :
              /\ key \in DOMAIN actual.properties
              /\ isCompatible(expected.properties[key], actual.properties[key])
       ELSE TRUE
  ELSE FALSE

defineVariable(st, name, typeInfo) == [st EXCEPT !.scope = MapSet(st.scope, name, typeInfo)]

addError(st, error) == [st EXCEPT !.errors = st.errors \cup {error}]

visitLiteral(node) ==
  IF node.isNumber THEN createType("number")
  ELSE IF node.isString THEN createType("string")
  ELSE createType("unknown")

visitIdentifier(node, st) ==
  IF node.name \in DOMAIN st.scope THEN [t |-> st.scope[node.name], st |-> st]
  ELSE IF node.name \in st.functions THEN [t |-> createFunctionType, st |-> st]
  ELSE IF node.name \in builtins THEN [t |-> createType("any"), st |-> st]
  ELSE [t |-> createType("unknown"),
        st |-> addError(st, [kind |-> "UndefinedIdentifier", name |-> node.name])]

\* visitMemberExpression after the object was visited (non-computed access)
memberType(node, objType, st) ==
  IF hasProperties(objType)
  THEN IF node.property \in DOMAIN objType.properties
       THEN [t |-> objType.properties[node.property], st |-> st]
       ELSE [t |-> createType("unknown"),
             st |-> IF DOMAIN objType.properties # {}
                    THEN addError(st, [kind |-> "MissingProperty", name |-> node.property])
                    ELSE st]
  ELSE [t |-> createType("unknown"), st |-> st]

RECURSIVE visitExpression(_, _)
RECURSIVE visitProperties(_, _, _, _)

\* visitObjectExpression: the loop over node.properties from index i
visitProperties(props, i, properties, st) ==
  IF i > Len(props) THEN [t |-> createObjectType(properties), st |-> st]
  ELSE LET prop == props[i] IN
    IF prop.type = "SpreadElement"
    THEN LET r == visitExpression(prop.argument, st) IN
         visitProperties(props, i + 1,
           IF hasProperties(r.t)
           THEN [k \in (DOMAIN properties) \cup (DOMAIN r.t.properties) |->
                   IF k \in DOMAIN r.t.properties THEN r.t.properties[k] ELSE properties[k]]
           ELSE properties,
           r.st)
    ELSE LET r == visitExpression(prop.value, st) IN
         visitProperties(props, i + 1, MapSet(properties, prop.key, r.t), r.st)

visitExpression(node, st) ==
  CASE node.type = "Literal" -> [t |-> visitLiteral(node), st |-> st]
    [] node.type = "Identifier" -> visitIdentifier(node, st)
    [] node.type = "MemberExpression" ->
         LET o == visitExpression(node.object, st) IN
         IF node.computed
         THEN [t |-> createType("unknown"), st |-> visitExpression(node.property, o.st).st]
         ELSE memberType(node, o.t, o.st)
    [] node.type = "ObjectExpression" -> visitProperties(node.properties, 1, EmptyMap, st)
    [] node.type = "AssignmentExpression" ->
         LET r == visitExpression(node.right, st) IN
         [t |-> r.t,
          st |-> IF node.left.type = "Identifier"
                 THEN defineVariable(r.st, node.left.name, r.t) ELSE r.st]
    [] OTHER -> [t |-> createType("unknown"), st |-> st]

\* visitDepStatement: the loop over the override object's entries
overrideErrors(node, expectedModuleType, overrideType) ==
  IF hasProperties(overrideType)
  THEN { [kind |-> "OverrideMismatch", name |-> key] :
           key \in { k \in DOMAIN overrideType.properties :
                       /\ k \notin DottedKeys
                       /\ hasProperties(expectedModuleType)
                       /\ k \in DOMAIN expectedModuleType.properties
                       /\ ~isCompatible(expectedModuleType.properties[k],
                                        overrideType.properties[k]) } }
  ELSE {}

visitDepStatement(node, st, registry) ==
  LET expectedModuleType == getModuleType(registry, node.path)
      checked == IF node.overrides # NoNode /\ expectedModuleType # NoNode
                 THEN LET r == visitExpression(node.overrides, st) IN
                      [r.st EXCEPT !.errors =
                         r.st.errors \cup overrideErrors(node, expectedModuleType, r.t)]
                 ELSE st
  IN IF expectedModuleType # NoNode
     THEN defineVariable(checked, node.alias, expectedModuleType)
     ELSE defineVariable(checked, node.alias, createType("any"))

visitArgDeclaration(node, st) ==
  LET r == IF node.defaultValue # NoNode THEN visitExpression(node.defaultValue, st)
           ELSE [t |-> createType("any"), st |-> st]
      defined == defineVariable(r.st, node.name, r.t)
  IN [defined EXCEPT !.moduleExports = MapSet(defined.moduleExports, node.name, r.t)]

visitEnvDeclaration(node, st) == defineVariable(st, node.name, createType("string"))

RECURSIVE defineObjectPattern(_, _, _, _)
\* visitDecDeclaration: the loop over pattern.properties
defineObjectPattern(props, i, initType, st) ==
  IF i > Len(props) THEN st
  ELSE LET prop == props[i]
           known == hasProperties(initType)
           found == known /\ prop.key \in DOMAIN initType.properties
           propType == IF found THEN initType.properties[prop.key] ELSE createType("unknown")
           st1 == IF known /\ ~found
                  THEN addError(st, [kind |-> "MissingProperty", name |-> prop.key]) ELSE st
       IN defineObjectPattern(props, i + 1, initType, defineVariable(st1, prop.value, propType))

RECURSIVE defineArrayPattern(_, _, _)
\* visitDecDeclaration: the loop over pattern.elements (initType is never an array here)
defineArrayPattern(elems, i, st) ==
  IF i > Len(elems) THEN st
  ELSE defineArrayPattern(elems, i + 1,
         IF elems[i] # NoNode THEN defineVariable(st, elems[i].name, createType("unknown"))
         ELSE st)

visitDecDeclaration(node, st) ==
  LET r == visitExpression(node.init, st)
      \* moduleExports[node.name]: a destructuring dec has no name, the key is "undefined"
      exported == IF node.exposed
                  THEN [r.st EXCEPT !.moduleExports =
                          MapSet(r.st.moduleExports,
                                 IF node.destructuring THEN "undefined" ELSE node.name, r.t)]
                  ELSE r.st
  IN IF node.destructuring
     THEN IF node.pattern.type = "ObjectPattern"
          THEN defineObjectPattern(node.pattern.properties, 1, r.t, exported)
          ELSE defineArrayPattern(node.pattern.elements, 1, exported)
     ELSE defineVariable(exported, node.name, r.t)

\* the functions of the model have no parameters and an empty body
visitFunctionDeclaration(node, st) ==
  IF node.exposed /\ node.name \in st.functions
  THEN [st EXCEPT !.moduleExports = MapSet(st.moduleExports, node.name, createFunctionType)]
  ELSE st

visitStatement(node, st, registry) ==
  CASE node.type = "DecDeclaration" -> visitDecDeclaration(node, st)
    [] node.type = "FunctionDeclaration" -> visitFunctionDeclaration(node, st)
    [] node.type = "PrintStatement" -> visitExpression(node.argument, st).st
    [] node.type = "ExpressionStatement" -> visitExpression(node.expression, st).st
    [] node.type = "DepStatement" -> visitDepStatement(node, st, registry)
    [] node.type = "ArgDeclaration" -> visitArgDeclaration(node, st)
    [] node.type = "EnvDeclaration" -> visitEnvDeclaration(node, st)
    [] OTHER -> st

RECURSIVE visitBody(_, _, _, _)
\* visitProgram, second pass
visitBody(body, i, st, registry) ==
  IF i > Len(body) THEN st
  ELSE visitBody(body, i + 1, visitStatement(body[i], st, registry), registry)

\* visitProgram: the first pass hoists the top-level functions (registerFunction)
visitProgram(ast, registry) ==
  visitBody(ast, 1,
            [scope |-> EmptyMap, errors |-> {}, moduleExports |-> EmptyMap,
             functions |-> { ast[i].name : i \in { j \in DOMAIN ast :
                                                    ast[j].type = "FunctionDeclaration" } }],
            registry)

\* check, after visitProgram: the export type is registered, the errors are returned
publishExports(st, modulePath, registry) ==
  [errors |-> st.errors, scope |-> st.scope, moduleExports |-> st.moduleExports,
   registry |-> IF modulePath # NoPath /\ DOMAIN st.moduleExports # {}
                THEN registerModuleType(registry, modulePath,
                                        createObjectType(st.moduleExports))
                ELSE registry]

\* new TypeChecker({ modulePath }).check(ast): the diagnostics, and the registry after it
check(ast, modulePath, registry) ==
  publishExports(visitProgram(ast, registry), modulePath, registry)

(***************************************************************************)
(* The parser's immutability guard (src/unnamed/part_000).                 *)
(* An access path is kept as the sequence of its text pieces.              *)
(***************************************************************************)
RECURSIVE getRootIdentifier(_)
\* "" stands for null
getRootIdentifier(node) ==
  IF node.type = "Identifier" THEN node.name
  ELSE IF node.type = "MemberExpression" THEN getRootIdentifier(node.object)
  ELSE ""

RECURSIVE getFullPath(_)
getFullPath(node) ==
  IF node.type = "Identifier" THEN <<node.name>>
  ELSE IF node.type = "MemberExpression"
  THEN IF node.computed
       \* `${objectPath}[${node.property.name || node.property.value}]`
       THEN getFullPath(node.object) \o
            <<"[", IF node.property.type = "Identifier" THEN node.property.name
                   ELSE IF node.property.type = "Literal" THEN node.property.value
                   ELSE "undefined", "]">>
       ELSE getFullPath(node.object) \o <<".", node.property>>
  ELSE <<"<unknown>">>

NoError == [kind |-> "none"]

\* checkDecImmutability: the ParseError it throws, or NoError
checkDecImmutability(node, decVariables) ==
  LET rootName == getRootIdentifier(node) IN
  IF rootName # "" /\ rootName \in decVariables
  THEN [kind |-> "ParseError", path |-> getFullPath(node), rootName |-> rootName]
  ELSE NoError

RECURSIVE parseAssignment(_, _)
\* parseAssignment on an expression: the first ParseError met, or NoError.
\* The guard runs on the left side before the right side is parsed.
parseAssignment(node, decVariables) ==
  IF node.type = "AssignmentExpression"
  THEN LET e == checkDecImmutability(node.left, decVariables) IN
       IF e # NoError THEN e ELSE parseAssignment(node.right, decVariables)
  ELSE NoError

patternNamesBound(pattern) ==
  IF pattern.type = "ObjectPattern"
  THEN { pattern.properties[i].value : i \in DOMAIN pattern.properties }
  ELSE { pattern.elements[i].name :
           i \in { j \in DOMAIN pattern.elements : pattern.elements[j] # NoNode } }

parseDecDeclaration(node, decVariables) ==
  IF node.destructuring
  THEN \* the initializer is parsed before the pattern's names are registered
       LET e == parseAssignment(node.init, decVariables) IN
       [error |-> e,
        decVariables |->
          decVariables \cup
          (IF node.pattern.type = "ObjectPattern"
           THEN { node.pattern.properties[i].key : i \in DOMAIN node.pattern.properties }
           ELSE { node.pattern.elements[i].name :
                    i \in { j \in DOMAIN node.pattern.elements :
                              node.pattern.elements[j] # NoNode } })]
  ELSE \* the name is registered before the initializer is parsed
       [error |-> parseAssignment(node.init, decVariables \cup {node.name}),
        decVariables |-> decVariables \cup {node.name}]

RECURSIVE parseStatement(_, _), parseBlock(_, _, _)
\* parseBlock: the statements of a block in order; this.decVariables is the one set of
\* the parser, so the dec names of the block stay in it after the block
parseBlock(body, i, decVariables) ==
  IF i > Len(body) THEN [error |-> NoError, decVariables |-> decVariables]
  ELSE LET r == parseStatement(body[i], decVariables) IN
       IF r.error # NoError THEN r ELSE parseBlock(body, i + 1, r.decVariables)

\* parseStatement: the statement's ParseError (or NoError) and the dec names after it
parseStatement(node, decVariables) ==
  CASE node.type = "DecDeclaration" -> parseDecDeclaration(node, decVariables)
    [] node.type \in {"ExpressionStatement", "PrintStatement", "ReturnStatement"} ->
         [error |-> parseAssignment(IF node.type = "ExpressionStatement"
                                    THEN node.expression ELSE node.argument, decVariables),
          decVariables |-> decVariables]
    [] node.type = "FunctionDeclaration" /\ "body" \in DOMAIN node ->
         parseBlock(node.body.body, 1, decVariables)
    [] node.type \in {"IfStatement", "WhileStatement"} ->
         LET test == parseAssignment(node.test, decVariables)
             block == parseBlock(IF node.type = "IfStatement" THEN node.consequent.body
                                 ELSE node.body.body, 1, decVariables)
         IN IF test # NoError THEN [error |-> test, decVariables |-> decVariables]
            ELSE IF block.error # NoError \/ node.type = "WhileStatement" THEN block
            ELSE parseStatement(node.alternate, block.decVariables)
    [] node.type = "BlockStatement" -> parseBlock(node.body, 1, decVariables)
    [] OTHER -> [error |-> NoError, decVariables |-> decVariables]

RECURSIVE parseFrom(_, _, _)
\* Parser.parse: the loop over the statements; it stops at the first ParseError
parseFrom(tokens, i, decVariables) ==
  IF i > Len(tokens) THEN NoError
  ELSE LET r == parseStatement(tokens[i], decVariables) IN
       IF r.error # NoError THEN r.error ELSE parseFrom(tokens, i + 1, r.decVariables)

\* parse(tokens): NoError when the AST is built
parse(tokens) == parseFrom(tokens, 1, {})

\* tokenize(source): the scanner throws on a character it does not know
tokenize(source) ==
  IF \E i \in DOMAIN source : source[i].type = "IllegalText"
  THEN [kind |-> "LexerError"] ELSE NoError

(***************************************************************************)
(* The linter (src/unnamed/part_003).                                     *)
(***************************************************************************)
\* Linter constructor: the default severity of a rule (getSeverity falls back to warning)
getSeverity(rule) ==
  CASE rule = "duplicate-key" -> "error"
    [] rule = "empty-block" -> "info"
    [] OTHER -> "warning"

\* getConstantValue: "true", "false" or "null"; the value and the name are compared as text
getConstantValue(node) ==
  IF node.type = "Literal" /\ node.value \in {"true", "false"} THEN node.value
  ELSE IF node.type = "Identifier" /\ node.name \in {"true", "false"} THEN node.name
  ELSE "null"

RECURSIVE analyzeExpression(_), analyzeStatement(_), analyzeBlock(_, _), analyzeAll(_, _)
\* analyzeExpression: the rules of the messages it adds below node (duplicate-key,
\* constant-condition and empty-block are the rules followed here)
analyzeExpression(node) ==
  CASE node.type = "ObjectExpression" ->
         { "duplicate-key" : x \in
             { p \in (DOMAIN node.properties) \X (DOMAIN node.properties) :
                 /\ p[1] < p[2]
                 /\ node.properties[p[1]].type = "Property"
                 /\ node.properties[p[2]].type = "Property"
                 /\ node.properties[p[1]].key = node.properties[p[2]].key
                 /\ node.properties[p[2]].key # "" } }
         \cup UNION { IF node.properties[i].type = "SpreadElement"
                      THEN analyzeExpression(node.properties[i].argument)
                      ELSE analyzeExpression(node.properties[i].value)
                      : i \in DOMAIN node.properties }
    [] node.type = "MemberExpression" ->
         analyzeExpression(node.object)
           \cup (IF node.computed THEN analyzeExpression(node.property) ELSE {})
    [] node.type \in {"AssignmentExpression", "BinaryExpression", "LogicalExpression"} ->
         analyzeExpression(node.left) \cup analyzeExpression(node.right)
    [] node.type \in {"UnaryExpression", "AwaitExpression", "SpreadElement"} ->
         analyzeExpression(node.argument)
    [] node.type = "CallExpression" ->
         analyzeExpression(node.callee)
           \cup UNION { analyzeExpression(node.arguments[i]) : i \in DOMAIN node.arguments }
    [] node.type = "ArrayExpression" ->
         UNION { analyzeExpression(node.elements[i]) : i \in DOMAIN node.elements }
    [] node.type = "ArrowFunctionExpression" ->
         IF node.body.type = "BlockStatement" THEN analyzeBlock(node.body, TRUE)
         ELSE analyzeExpression(node.body)
    [] node.type = "ConditionalExpression" ->
         analyzeExpression(node.test) \cup analyzeExpression(node.consequent)
           \cup analyzeExpression(node.alternate)
    [] node.type = "RangeExpression" ->
         analyzeExpression(node.start) \cup analyzeExpression(node.end)
    [] OTHER -> {}

\* analyzeBlock(node, checkEmpty)
analyzeBlock(node, checkEmpty) ==
  IF node.body = <<>> THEN (IF checkEmpty THEN {"empty-block"} ELSE {})
  ELSE analyzeAll(node.body, 1)

\* the loop over a list of statements
analyzeAll(body, i) ==
  IF i > Len(body) THEN {} ELSE analyzeStatement(body[i]) \cup analyzeAll(body, i + 1)

\* analyzeStatement: a statement type without a case is left alone
analyzeStatement(node) ==
  CASE node.type = "DecDeclaration" -> analyzeExpression(node.init)
    [] node.type = "FunctionDeclaration" ->
         IF "body" \in DOMAIN node THEN analyzeBlock(node.body, FALSE) ELSE {}
    [] node.type = "IfStatement" ->
         analyzeExpression(node.test)
           \cup (IF getConstantValue(node.test) # "null" THEN {"constant-condition"} ELSE {})
           \cup analyzeBlock(node.consequent, TRUE)
           \cup (IF node.alternate.type = "BlockStatement"
                 THEN analyzeBlock(node.alternate, TRUE)
                 ELSE analyzeStatement(node.alternate))
    [] node.type = "WhileStatement" ->
         analyzeExpression(node.test)
           \cup (IF getConstantValue(node.test) # "null" THEN {"constant-condition"} ELSE {})
           \cup analyzeBlock(node.body, TRUE)
    [] node.type = "ReturnStatement" -> analyzeExpression(node.argument)
    [] node.type = "PatternMatch" ->
         UNION { analyzeExpression(node.cases[i].test)
                   \cup (IF getConstantValue(node.cases[i].test) = "false"
                         THEN {"constant-condition"} ELSE {})
                   \cup (IF node.cases[i].consequent.type = "BlockStatement"
                         THEN analyzeBlock(node.cases[i].consequent, TRUE)
                         ELSE analyzeStatement(node.cases[i].consequent))
                 : i \in DOMAIN node.cases }
    [] node.type = "PrintStatement" -> analyzeExpression(node.argument)
    [] node.type = "ExpressionStatement" -> analyzeExpression(node.expression)
    [] node.type = "BlockStatement" -> analyzeBlock(node, TRUE)
    [] node.type = "DepStatement" -> analyzeExpression(node.overrides)
    [] OTHER -> {}

\* lint(ast, source): the rules of the messages of analyzeProgram
lint(ast) == analyzeAll(ast, 1)

\* Step 2.8: messages.filter(m => m.severity === Severity.Error) is not empty
lintErrors(ast) == \E rule \in lint(ast) : getSeverity(rule) = "error"

(***************************************************************************)
(* The compiler (src/src/index.js).                                        *)
(***************************************************************************)
\* static registerModule: moduleRegistry.set(modulePath, requiredArgs)
registerModule(registry, modulePath, requiredArgs) == MapSet(registry, modulePath, requiredArgs)

\* static getModuleRequiredArgs: moduleRegistry.get(modulePath) || []
getModuleRequiredArgs(registry, modulePath) ==
  IF modulePath \in DOMAIN registry THEN registry[modulePath] ELSE {}

\* extractProvidedArgs: p.key.type is read on a spread element, which has no key,
\* and that throws a TypeError out of compile
extractProvidedArgs(overrides) ==
  IF overrides.type # "ObjectExpression" THEN [threw |-> FALSE, args |-> {}]
  ELSE IF \E i \in DOMAIN overrides.properties : overrides.properties[i].type = "SpreadElement"
  THEN [threw |-> TRUE, args |-> {}]
  ELSE [threw |-> FALSE,
        args |-> { overrides.properties[i].key : i \in DOMAIN overrides.properties }]

\* Step 2.6 for one dep: the error thrown, or NoError
validateDep(dep, registry) ==
  LET depRequiredArgs == getModuleRequiredArgs(registry, dep.path) IN
  IF depRequiredArgs = {} THEN NoError
  ELSE LET provided == IF dep.overrides # NoNode THEN extractProvidedArgs(dep.overrides)
                       ELSE [threw |-> FALSE, args |-> {}]
       IN IF provided.threw THEN [kind |-> "JSTypeError"]
          ELSE IF depRequiredArgs \subseteq provided.args THEN NoError
          ELSE [kind |-> "CompileError", path |-> dep.path]

RECURSIVE validateDeps(_, _, _)
\* Step 2.6: the loop over the top-level dep statements
validateDeps(ast, i, registry) ==
  IF i > Len(ast) THEN NoError
  ELSE LET e == IF ast[i].type = "DepStatement" THEN validateDep(ast[i], registry)
                ELSE NoError
       IN IF e # NoError THEN e ELSE validateDeps(ast, i + 1, registry)

requiredArgsOf(ast) ==
  { ast[i].name : i \in { j \in DOMAIN ast :
                            ast[j].type = "ArgDeclaration" /\ ast[j].required } }

\* generator, collectExports: the names the emitted module factory returns
collectExports(ast) ==
  { (IF ast[i].type = "DecDeclaration" /\ ast[i].destructuring THEN "undefined"
     ELSE ast[i].name) :
      i \in { j \in DOMAIN ast :
                /\ ast[j].type \in {"DecDeclaration", "FunctionDeclaration"}
                /\ ast[j].exposed } }

FailedButEmits(steps, error, registry, typeRegistry) ==
  [steps |-> steps \o <<"emit">>, error |-> error, output |-> "javascript", exports |-> {},
   moduleRegistry |-> registry, moduleTypeRegistry |-> typeRegistry]

\* a throw out of compile: nothing is returned, the registries stay as they are by then
Failed(steps, error, registry, typeRegistry) ==
  [steps |-> steps, error |-> error, output |-> "", exports |-> {},
   moduleRegistry |-> registry, moduleTypeRegistry |-> typeRegistry]

\* Step 2.8 and Step 3
lintAndGenerate(ast, options, steps, registry, typeRegistry) ==
  IF options.skipLint
  THEN [steps |-> steps \o <<"emit">>, error |-> NoError, output |-> "javascript",
        exports |-> collectExports(ast),
        moduleRegistry |-> registry, moduleTypeRegistry |-> typeRegistry]
  ELSE IF lintErrors(ast)
  THEN Failed(steps \o <<"lint">>, [kind |-> "LintError"], registry, typeRegistry)
  ELSE [steps |-> steps \o <<"lint", "emit">>, error |-> NoError, output |-> "javascript",
        exports |-> collectExports(ast),
        moduleRegistry |-> registry, moduleTypeRegistry |-> typeRegistry]

\* Step 2.7 after typeChecker.check(ast) returned
afterTypeCheck(ast, options, steps, registry, checked) ==
  IF checked.errors # {}
  THEN Failed(steps, [kind |-> "TypeError"], registry, checked.registry)
  ELSE lintAndGenerate(ast, options, steps, registry, checked.registry)

\* Step 2.7: new TypeChecker() has no module path
typeCheck(ast, options, steps, registry, typeRegistry) ==
  IF options.skipTypeCheck
  THEN lintAndGenerate(ast, options, steps, registry, typeRegistry)
  ELSE afterTypeCheck(ast, options, steps \o <<"typecheck">>, registry,
                      check(ast, NoPath, typeRegistry))

\* Step 2.6 after the loop over the dep statements
afterValidate(ast, options, steps, registry, typeRegistry, validated) ==
  IF validated # NoError THEN Failed(steps, validated, registry, typeRegistry)
  ELSE typeCheck(ast, options, steps, registry, typeRegistry)

\* Step 2.6, on the registry Step 2.5 left
validate(ast, options, steps, registry, typeRegistry) ==
  afterValidate(ast, options, steps \o <<"validate">>, registry, typeRegistry,
                validateDeps(ast, 1, registry))

\* Step 2.5
register(ast, modulePath, options, registry, typeRegistry) ==
  IF modulePath # NoPath
  THEN validate(ast, options, <<"scan", "parse", "register">>,
                registerModule(registry, modulePath, requiredArgsOf(ast)), typeRegistry)
  ELSE validate(ast, options, <<"scan", "parse">>, registry, typeRegistry)

\* KimchiCompiler.compile(source, modulePath) under options: the steps it ran, the
\* error it threw (NoError when it returned), the text it returned, the registries after
compile(source, modulePath, options, registry, typeRegistry) ==
  IF tokenize(source) # NoError
  THEN Failed(<<"scan">>, tokenize(source), registry, typeRegistry)
  ELSE IF parse(source) # NoError
  THEN Failed(<<"scan", "parse">>, parse(source), registry, typeRegistry)
  ELSE register(source, modulePath, options, registry, typeRegistry)

(***************************************************************************)
(* The calls on the registries' API.  Each action is one call; op keeps    *)
(* the call's name, its module path and what it returned or threw.         *)
(***************************************************************************)
Paths == {"P", "Q"}

DefaultOptions == [skipTypeCheck |-> FALSE, skipLint |-> FALSE]

Options == [skipTypeCheck : BOOLEAN, skipLint : BOOLEAN]

RECURSIVE SeqsUpTo(_, _)
\* the sequences over S of length at most n
SeqsUpTo(S, n) ==
  IF n = 0 THEN {<<>>}
  ELSE LET shorter == SeqsUpTo(S, n - 1) IN
       shorter \cup { Append(s, x) : s \in { t \in shorter : Len(t) = n - 1 }, x \in S }

NoInput == [type |-> "None"]

InitRegistries ==
  /\ moduleRegistry = EmptyMap
  /\ moduleTypeRegistry = EmptyMap
  /\ op = [name |-> "init"]

Init ==
  /\ InitRegistries
  /\ input = NoInput

\* the call returned or threw r: the registries are as compile left them
compiled(modulePath, options, r) ==
  /\ moduleRegistry' = r.moduleRegistry
  /\ moduleTypeRegistry' = r.moduleTypeRegistry
  /\ op' = [name |-> "compile", modulePath |-> modulePath, options |-> options,
            steps |-> r.steps, error |-> r.error, output |-> r.output,
            exports |-> r.exports]
  /\ UNCHANGED input

\* new KimchiCompiler(options).compile(source, modulePath)
Compile(sources, paths, optionSet) ==
  \E source \in sources, modulePath \in paths, options \in optionSet :
    compiled(modulePath, options,
             compile(source, modulePath, options, moduleRegistry, moduleTypeRegistry))

\* the call returned r.errors: the registry is as check left it
checked(modulePath, r) ==
  /\ moduleTypeRegistry' = r.registry
  /\ op' = [name |-> "check", modulePath |-> modulePath, errors |-> r.errors,
            scope |-> r.scope, moduleExports |-> r.moduleExports]
  /\ UNCHANGED <<moduleRegistry, input>>

\* new TypeChecker({ modulePath }).check(ast)
Check(asts, paths) ==
  \E ast \in asts, modulePath \in paths :
    checked(modulePath, check(ast, modulePath, moduleTypeRegistry))

\* KimchiCompiler.registerModule(modulePath, requiredArgs)
RegisterModule(paths, names) ==
  \E modulePath \in paths, requiredArgs \in SUBSET names :
    /\ moduleRegistry' = registerModule(moduleRegistry, modulePath, requiredArgs)
    /\ op' = [name |-> "registerModule", modulePath |-> modulePath]
    /\ UNCHANGED <<moduleTypeRegistry, input>>

\* TypeChecker.registerModuleType(modulePath, exportType)
RegisterModuleType(paths, types) ==
  \E modulePath \in paths, exportType \in types :
    /\ moduleTypeRegistry' = registerModuleType(moduleTypeRegistry, modulePath, exportType)
    /\ op' = [name |-> "registerModuleType", modulePath |-> modulePath]
    /\ UNCHANGED <<moduleRegistry, input>>

\* TypeChecker.getModuleType(modulePath)
GetModuleType(paths) ==
  \E modulePath \in paths :
    /\ op' = [name |-> "getModuleType", modulePath |-> modulePath,
              value |-> getModuleType(moduleTypeRegistry, modulePath)]
    /\ UNCHANGED <<moduleRegistry, moduleTypeRegistry, input>>

\* KimchiCompiler.getModuleRequiredArgs(modulePath)
GetModuleRequiredArgs(paths) ==
  \E modulePath \in paths :
    /\ op' = [name |-> "getModuleRequiredArgs", modulePath |-> modulePath,
              value |-> getModuleRequiredArgs(moduleRegistry, modulePath)]
    /\ UNCHANGED <<moduleRegistry, moduleTypeRegistry, input>>

\* TypeChecker.clearRegistry()
ClearRegistry ==
  /\ moduleTypeRegistry' = clearRegistry(moduleTypeRegistry)
  /\ op' = [name |-> "clearRegistry"]
  /\ UNCHANGED <<moduleRegistry, input>>

(***************************************************************************)
(* Spec: one process calling the whole API on two module paths.            *)
(***************************************************************************)
\* expose dec a = 1  /  !arg k
ApiStatements ==
  { DecDeclaration("a", Lit("number"), TRUE),
    ArgDeclaration("k", TRUE, NoNode) }

ApiSources == SeqsUpTo(ApiStatements, MaxStmts)

ExportTypes == { createObjectType([x \in {"a"} |-> createType("string")]) }

Next ==
  \/ Compile(ApiSources, Paths \cup {NoPath}, {DefaultOptions})
  \/ Check(ApiSources, Paths \cup {NoPath})
  \/ RegisterModule(Paths, {"k"})
  \/ RegisterModuleType(Paths, ExportTypes)
  \/ GetModuleType(Paths)
  \/ GetModuleRequiredArgs(Paths)
  \/ ClearRegistry

Spec == Init /\ [][Next]_vars

(***************************************************************************)
(* C2: registry growth.                                                    *)
(***************************************************************************)
\* C2: over any sequence of compile, check, register and lookup calls the set of
\* module paths held in each registry only grows; the one call that removes
\* entries is clearRegistry, and it leaves the export-type registry empty.
C2_RegistryOnlyGrows ==
  [][ /\ DOMAIN moduleRegistry \subseteq DOMAIN moduleRegistry'
      /\ op'.name # "clearRegistry" =>
           DOMAIN moduleTypeRegistry \subseteq DOMAIN moduleTypeRegistry'
      /\ op'.name = "clearRegistry" => moduleTypeRegistry' = EmptyMap ]_vars

\* both registries grew to two paths, the last of them by a check
C2_Witness ==
  /\ op.name = "check"
  /\ op.modulePath = "Q"
  /\ DOMAIN moduleTypeRegistry = Paths
  /\ DOMAIN moduleRegistry = Paths

(***************************************************************************)
(* SpecPipeline: compile on sources that fail at each of its steps.        *)
(***************************************************************************)
\* a lone &  /  dec b = b = 1  /  as m dep P  /  print zz  /  print { a: 1, a: 1 }
PipelineStatements ==
  { IllegalText,
    DecDeclaration("b", AssignmentExpression("=", Id("b"), Lit("number")), FALSE),
    DepStatement("m", "P", NoNode),
    PrintStatement(Id("zz")),
    PrintStatement(ObjectExpression(<<Property("a", Lit("number")),
                                      Property("a", Lit("number"))>>)) }

PipelineSources == SeqsUpTo(PipelineStatements, MaxStmts)

NextPipeline ==
  \/ Compile(PipelineSources, {NoPath, "P"}, Options)
  \/ RegisterModule({"P"}, {"k", "j"})

SpecPipeline == Init /\ [][NextPipeline]_vars

\* the place of a step in compile
StepRank(step) ==
  CASE step = "scan" -> 1
    [] step = "parse" -> 2
    [] step = "register" -> 3
    [] step = "validate" -> 4
    [] step = "typecheck" -> 5
    [] step = "lint" -> 6
    [] step = "emit" -> 7

\* the step that throws an error of this kind
StepOf(kind) ==
  CASE kind = "LexerError" -> "scan"
    [] kind = "ParseError" -> "parse"
    [] kind \in {"CompileError", "JSTypeError"} -> "validate"
    [] kind = "TypeError" -> "typecheck"
    [] kind = "LintError" -> "lint"

\* C3: compile runs scan, parse, register, validate, type-check, lint, emit in
\* that order; when a step fails it is the last step run, emit is not run and no
\* generated text is returned; text is returned only after emit.
C3_StepsInOrderAndShortCircuit ==
  op.name = "compile" =>
    /\ Len(op.steps) >= 1
    /\ op.steps[1] = "scan"
    /\ \A i, j \in DOMAIN op.steps : i < j => StepRank(op.steps[i]) < StepRank(op.steps[j])
    /\ op.error # NoError =>
         /\ op.steps[Len(op.steps)] = StepOf(op.error.kind)
         /\ op.output = ""
    /\ op.error = NoError =>
         /\ op.steps[Len(op.steps)] = "emit"
         /\ op.output # ""
         /\ \A step \in {"scan", "parse", "validate"} :
              \E i \in DOMAIN op.steps : op.steps[i] = step
         /\ ~op.options.skipTypeCheck => \E i \in DOMAIN op.steps : op.steps[i] = "typecheck"
         /\ ~op.options.skipLint => \E i \in DOMAIN op.steps : op.steps[i] = "lint"
         /\ op.modulePath # NoPath => \E i \in DOMAIN op.steps : op.steps[i] = "register"

\* a compile that registered its module and passed validation stopped at the type check
C3_Witness ==
  /\ op.name = "compile"
  /\ op.error.kind = "TypeError"
  /\ op.steps = <<"scan", "parse", "register", "validate", "typecheck">>
  /\ op.output = ""

(***************************************************************************)
(* SpecExports: one module, checked with and without a module path.        *)
(***************************************************************************)
\* expose dec a = 1  /  expose fn f() {}  /  arg k  /  env e
\* expose dec { x } = { x: 1 }  /  print zz
ExportStatements ==
  { DecDeclaration("a", Lit("number"), TRUE),
    FunctionDeclaration("f", TRUE),
    ArgDeclaration("k", FALSE, NoNode),
    EnvDeclaration("e", FALSE),
    DecObjectPattern(<<Property("x", "x")>>,
                     ObjectExpression(<<Property("x", Lit("number"))>>), TRUE),
    PrintStatement(Id("zz")) }

ExportSources == SeqsUpTo(ExportStatements, MaxStmts)

InitExports ==
  /\ InitRegistries
  /\ input \in ExportSources

NextExports ==
  \/ Check({input}, {NoPath, "P"})
  \/ GetModuleType({"P"})
  \/ ClearRegistry

SpecExports == InitExports /\ [][NextExports]_vars

\* C1: a check that reports at least one type error does not create or replace a
\* registry entry; an entry is published only by a check that returns no diagnostics.
C1_PublishedOnlyBySuccessfulCheck ==
  [][ (op'.name = "check" /\ op'.errors # {}) =>
        moduleTypeRegistry' = moduleTypeRegistry ]_vars

\* the names a module declares with expose dec, expose fn, arg and env at top level
DeclaredExports(ast) ==
  UNION { (CASE ast[i].type = "DecDeclaration" /\ ast[i].exposed ->
                  IF ast[i].destructuring THEN patternNamesBound(ast[i].pattern)
                  ELSE {ast[i].name}
             [] ast[i].type = "FunctionDeclaration" /\ ast[i].exposed -> {ast[i].name}
             [] ast[i].type \in {"ArgDeclaration", "EnvDeclaration"} -> {ast[i].name}
             [] OTHER -> {}) : i \in DOMAIN ast }

\* C5: after a check with a module path, the export object published for the path
\* has an entry for every top-level expose dec, expose fn, arg and env declaration
\* of the module, keyed by the declared name.
C5_EntryForEveryDeclaration ==
  (op.name = "check" /\ op.modulePath # NoPath) =>
    \A name \in DeclaredExports(input) :
      /\ op.modulePath \in DOMAIN moduleTypeRegistry
      /\ moduleTypeRegistry[op.modulePath].kind = "object"
      /\ name \in DOMAIN moduleTypeRegistry[op.modulePath].properties

(***************************************************************************)
(* SpecDep: one module with dep statements, checked against the export     *)
(* types other modules registered.                                         *)
(***************************************************************************)
\* as m dep P  /  as m dep P({ a: "s" })  /  as m dep Q  /  print m.a  /  print m.b
DepStatements ==
  { DepStatement("m", "P", NoNode),
    DepStatement("m", "P", ObjectExpression(<<Property("a", Lit("string"))>>)),
    DepStatement("m", "Q", NoNode),
    PrintStatement(Member(Id("m"), "a")),
    PrintStatement(Member(Id("m"), "b")) }

DepSources == SeqsUpTo(DepStatements, MaxStmts)

\* { a: number }  /  { a: string, b: number }
DepTypes ==
  { createObjectType([x \in {"a"} |-> createType("number")]),
    createObjectType([x \in {"a", "b"} |->
                        IF x = "a" THEN createType("string") ELSE createType("number")]) }

InitDep ==
  /\ InitRegistries
  /\ input \in DepSources

NextDep ==
  \/ Check({input}, {NoPath})
  \/ RegisterModuleType(Paths, DepTypes)
  \/ ClearRegistry

SpecDep == InitDep /\ [][NextDep]_vars

\* the statements of ast that are dep statements
DepsOf(ast) == { i \in DOMAIN ast : ast[i].type = "DepStatement" }

\* the type named by a literal of the source
LiteralKind(node) == IF node.isNumber THEN "number" ELSE "string"

\* C6: checking `as A dep P` binds A to exactly the shape registered for P at that
\* moment, and a literal override of a registered member is reported exactly when
\* its type does not fit the registered one; when P has no entry A is bound to
\* any, and no member read on A is reported.
C6_AliasBoundToRegisteredShape ==
  op.name = "check" =>
    /\ \A i \in DepsOf(input) :
         (\A j \in DepsOf(input) : j <= i) =>
           /\ input[i].alias \in DOMAIN op.scope
           /\ op.scope[input[i].alias] =
                IF input[i].path \in DOMAIN moduleTypeRegistry
                THEN moduleTypeRegistry[input[i].path]
                ELSE [kind |-> "any"]
    /\ \A key \in {"a", "b"} :
         [kind |-> "OverrideMismatch", name |-> key] \in op.errors <=>
           \E i \in DepsOf(input) :
             /\ input[i].overrides # NoNode
             /\ input[i].path \in DOMAIN moduleTypeRegistry
             /\ key \in DOMAIN moduleTypeRegistry[input[i].path].properties
             /\ \E n \in DOMAIN input[i].overrides.properties :
                  /\ input[i].overrides.properties[n].key = key
                  /\ moduleTypeRegistry[input[i].path].properties[key].kind
                       # LiteralKind(input[i].overrides.properties[n].value)
    /\ (\A i \in DepsOf(input) : input[i].path \notin DOMAIN moduleTypeRegistry) =>
         \A e \in op.errors : e.kind = "UndefinedIdentifier"

\* a dep on a registered module was checked: the alias has the registered shape and
\* the override of a is reported against it
C6_Witness ==
  /\ op.name = "check"
  /\ "P" \in DOMAIN moduleTypeRegistry
  /\ "m" \in DOMAIN op.scope
  /\ op.scope["m"] = moduleTypeRegistry["P"]
  /\ [kind |-> "OverrideMismatch", name |-> "a"] \in op.errors

(***************************************************************************)
(* SpecRequiredArgs: one module with dep statements, compiled against the  *)
(* required args other modules registered.                                 *)
(***************************************************************************)
\* as m dep P  /  as m dep P({ k: "s" })  /  as m dep P({ ...o })  /  as m dep P(o)
RequiredArgStatements ==
  { DepStatement("m", "P", NoNode),
    DepStatement("m", "P", ObjectExpression(<<Property("k", Lit("string"))>>)),
    DepStatement("m", "P", ObjectExpression(<<SpreadElement(Id("o"))>>)),
    DepStatement("m", "P", Id("o")) }

RequiredArgSources == SeqsUpTo(RequiredArgStatements, MaxStmts)

InitRequiredArgs ==
  /\ InitRegistries
  /\ input \in RequiredArgSources

NextRequiredArgs ==
  \/ Compile({input}, {NoPath}, {DefaultOptions})
  \/ RegisterModule({"P"}, {"k", "j"})

SpecRequiredArgs == InitRequiredArgs /\ [][NextRequiredArgs]_vars

\* the args a dep statement's override object supplies (none without an object)
Supplied(dep) ==
  IF dep.overrides = NoNode \/ dep.overrides.type # "ObjectExpression" THEN {}
  ELSE { dep.overrides.properties[n].key :
           n \in { x \in DOMAIN dep.overrides.properties :
                     dep.overrides.properties[x].type = "Property" } }

\* C4: compile fails with the 'Required argument ... not provided' error if and
\* only if some dep statement's target has required args recorded in the registry
\* and the statement's override object does not supply every one of them.
C4_RequiredArgErrorIffNotSupplied ==
  op.name = "compile" =>
    (op.error.kind = "CompileError" <=>
       \E i \in DepsOf(input) :
         /\ input[i].path \in DOMAIN moduleRegistry
         /\ ~(moduleRegistry[input[i].path] \subseteq Supplied(input[i])))

(***************************************************************************)
(* SpecExpose: a library compiled as module P and an application that      *)
(* depends on it, compiled in the same process.                            *)
(***************************************************************************)
\* expose dec a = 1  /  dec b = 1
LibStatements ==
  { DecDeclaration("a", Lit("number"), TRUE),
    DecDeclaration("b", Lit("number"), FALSE) }

\* as m dep P  /  print m.a  /  print m.b
AppStatements ==
  { DepStatement("m", "P", NoNode),
    PrintStatement(Member(Id("m"), "a")),
    PrintStatement(Member(Id("m"), "b")) }

InitExpose ==
  /\ InitRegistries
  /\ input \in [lib : SeqsUpTo(LibStatements, MaxStmts),
                app : SeqsUpTo(AppStatements, MaxStmts)]

NextExpose ==
  \/ Compile({input.lib}, {"P"}, {DefaultOptions})
  \/ Compile({input.app}, {NoPath}, {DefaultOptions})

SpecExpose == InitExpose /\ [][NextExpose]_vars

\* the names a module declares with dec at top level, all of them or the exposed ones
DecNames(ast, exposedOnly) ==
  { ast[i].name : i \in { j \in DOMAIN ast : /\ ast[j].type = "DecDeclaration"
                                             /\ ~ast[j].destructuring
                                             /\ exposedOnly => ast[j].exposed } }

\* app declares `as m dep P` and later reads a member of m that lib declares
\* without exposing it, while lib exposes some other declaration
ReadsUnexposedMember(lib, app) ==
  /\ DecNames(lib, TRUE) # {}
  /\ \E i, j \in DOMAIN app :
       /\ i < j
       /\ app[i].type = "DepStatement"
       /\ app[i].path = "P"
       /\ app[j].type = "PrintStatement"
       /\ app[j].argument.type = "MemberExpression"
       /\ app[j].argument.object = Id(app[i].alias)
       /\ app[j].argument.property \in DecNames(lib, FALSE) \ DecNames(lib, TRUE)

\* C7: once module P has been compiled, compiling a module that declares
\* `as m dep P` and reads a member of m that P does not expose fails.
C7_UnexposedMemberFailsCompile ==
  ( /\ op.name = "compile"
    /\ op.modulePath = NoPath
    /\ "P" \in DOMAIN moduleRegistry
    /\ ReadsUnexposedMember(input.lib, input.app) ) => op.error # NoError

(***************************************************************************)
(* SpecImmutable: one module of dec declarations and assignments, compiled.*)
(***************************************************************************)
\* dec b = 1  /  dec { x } = { x: 1 }  /  dec { a: r } = { a: 1 }  /  dec [y] = "s"
ImmutableDeclarations ==
  { DecDeclaration("b", Lit("number"), FALSE),
    DecObjectPattern(<<Property("x", "x")>>,
                     ObjectExpression(<<Property("x", Lit("number"))>>), FALSE),
    DecObjectPattern(<<Property("a", "r")>>,
                     ObjectExpression(<<Property("a", Lit("number"))>>), FALSE),
    DecArrayPattern(<<Id("y")>>, Lit("string"), FALSE) }

\* b = 1  /  b += 1  /  b.p = 1  /  b.p[1] = 1  /  x = 1  /  r = 1  /  y -= 1
ImmutableAssignments ==
  { ExpressionStatement(AssignmentExpression(t[1], t[2], Lit("number"))) :
      t \in { <<"=", Id("b")>>,
              <<"+=", Id("b")>>,
              <<"=", Member(Id("b"), "p")>>,
              <<"=", Index(Member(Id("b"), "p"), Lit("number"))>>,
              <<"=", Id("x")>>,
              <<"=", Id("r")>>,
              <<"-=", Id("y")>> } }

ImmutableSources == SeqsUpTo(ImmutableDeclarations \cup ImmutableAssignments, MaxStmts)

InitImmutable ==
  /\ InitRegistries
  /\ input \in ImmutableSources

NextImmutable == Compile({input}, {NoPath}, {DefaultOptions})

SpecImmutable == InitImmutable /\ [][NextImmutable]_vars

\* the names the dec declarations before statement i bind
DecBoundBefore(ast, i) ==
  UNION { (IF ast[j].destructuring THEN patternNamesBound(ast[j].pattern)
           ELSE {ast[j].name}) :
            j \in { n \in 1..(i - 1) : ast[n].type = "DecDeclaration" } }

\* statement i assigns to a dec-bound name or to a path rooted at one
AssignsToDec(ast, i) ==
  /\ ast[i].type = "ExpressionStatement"
  /\ ast[i].expression.type = "AssignmentExpression"
  /\ getRootIdentifier(ast[i].expression.left) \in DecBoundBefore(ast, i)

\* the text of an access path, piece by piece
RECURSIVE AccessPath(_)
AccessPath(node) ==
  IF node.type = "Identifier" THEN <<node.name>>
  ELSE IF node.computed
  THEN AccessPath(node.object) \o <<"[", node.property.value, "]">>
  ELSE AccessPath(node.object) \o <<".", node.property>>

\* C8: a program that assigns (with = or a compound operator, to the name itself or
\* to a member or bracket path under it) to a name bound by a dec declaration,
\* destructured names included, fails to compile with a diagnostic that names the
\* full access path and the root name.
C8_AssignmentToDecFails ==
  op.name = "compile" =>
    \A i \in DOMAIN input :
      (AssignsToDec(input, i) /\ \A j \in 1..(i - 1) : ~AssignsToDec(input, j)) =>
        /\ op.error.kind = "ParseError"
        /\ op.error.path = AccessPath(input[i].expression.left)
        /\ op.error.rootName = getRootIdentifier(input[i].expression.left)

(***************************************************************************)
(* The parser's js block (src/unnamed/part_000, parseJSBlock).             *)
(* A token is [type, value]; the block's text is rebuilt from its tokens,  *)
(* each followed by one space, and is kept as the sequence of the pieces.  *)
(***************************************************************************)
Token(type, value) == [type |-> type, value |-> value]

IdentifierToken(value) == Token("IDENTIFIER", value)

\* tokenToSource
tokenToSource(token) ==
  CASE token.type = "IDENTIFIER" -> token.value
    [] token.type = "LPAREN" -> "("
    [] token.type = "RPAREN" -> ")"
    [] token.type = "COMMA" -> ","
    [] token.type = "DOT" -> "."
    [] OTHER -> token.value

\* the while loop of parseJSBlock (the tokens of the model hold no braces)
jsCodeOf(tokens) == [i \in DOMAIN tokens |-> tokenToSource(tokens[i])]

\* the method names of the pattern: (log|error|warn|info|debug|trace)
consoleMethods == {"log", "error", "warn", "info", "debug", "trace"}

\* the pieces of the model's texts that end with the letters console: the
\* pattern starts with console, with no word boundary before it
endsWithConsole == {"console", "myconsole"}

\* consolePattern.test(jsCode):
\*   console\s*\.\s*(log|error|warn|info|debug|trace)\s*\([^)]*\b<secretInput>\b
consolePatternTest(jsCode, secretInput) ==
  \E i \in DOMAIN jsCode :
    /\ i + 3 <= Len(jsCode)
    /\ jsCode[i] \in endsWithConsole
    /\ jsCode[i + 1] = "."
    /\ jsCode[i + 2] \in consoleMethods
    /\ jsCode[i + 3] = "("
    /\ \E j \in (i + 4)..Len(jsCode) :
         /\ jsCode[j] = secretInput
         /\ \A m \in (i + 4)..(j - 1) : jsCode[m] # ")"

\* parseJSBlock: the ParseError it throws, or NoError
parseJSBlock(inputs, tokens, secretVariables) ==
  IF \E n \in DOMAIN inputs :
       inputs[n] \in secretVariables /\ consolePatternTest(jsCodeOf(tokens), inputs[n])
  THEN [kind |-> "ParseError"]
  ELSE NoError

\* the parser reaches a js block with these secret variables declared before it
ParseJSBlock ==
  /\ op' = [name |-> "parseJSBlock",
            error |-> parseJSBlock(input.inputs, input.tokens, input.secretVariables)]
  /\ UNCHANGED <<moduleRegistry, moduleTypeRegistry, input>>

(***************************************************************************)
(* SpecJsBlock: one js block of a few JavaScript statements.               *)
(***************************************************************************)
\* name . method ( args )
CallTokens(object, method, args) ==
  <<IdentifierToken(object), Token("DOT", "."), IdentifierToken(method),
    Token("LPAREN", "(")>> \o args \o <<Token("RPAREN", ")")>>

\* console.log(k)  /  console.warn(k)  /  console.log(f(), k)  /  console.log(f)
\* myconsole.log(k)  /  f(k)
JsStatements ==
  { CallTokens("console", "log", <<IdentifierToken("k")>>),
    CallTokens("console", "warn", <<IdentifierToken("k")>>),
    CallTokens("console", "log",
               <<IdentifierToken("f"), Token("LPAREN", "("), Token("RPAREN", ")"),
                 Token("COMMA", ","), IdentifierToken("k")>>),
    CallTokens("console", "log", <<IdentifierToken("f")>>),
    CallTokens("myconsole", "log", <<IdentifierToken("k")>>),
    <<IdentifierToken("f"), Token("LPAREN", "("), IdentifierToken("k"),
      Token("RPAREN", ")")>> }

RECURSIVE Flatten(_)
Flatten(seqs) == IF seqs = <<>> THEN <<>> ELSE Head(seqs) \o Flatten(Tail(seqs))

\* secret dec k = "s" or dec k = "s", then js { ... } or js(k) { ... }
JsBlocks ==
  { [secretVariables |-> sv, inputs |-> ins, tokens |-> Flatten(body)] :
      sv \in SUBSET {"k"}, ins \in {<<>>, <<"k">>},
      body \in SeqsUpTo(JsStatements, MaxJsStmts) }

InitJsBlock ==
  /\ InitRegistries
  /\ input \in JsBlocks

NextJsBlock == ParseJSBlock

SpecJsBlock == InitJsBlock /\ [][NextJsBlock]_vars

\* opening minus closing parentheses among tokens[a..b]
ParenDepth(tokens, a, b) ==
  Cardinality({ n \in a..b : tokens[n].type = "LPAREN" })
    - Cardinality({ n \in a..b : tokens[n].type = "RPAREN" })

\* tokens[i..] start a call console.<method>( ... ) whose argument text, up to the
\* parenthesis that closes the call, mentions name
ConsoleCallMentions(tokens, i, name) ==
  /\ i + 3 <= Len(tokens)
  /\ tokens[i] = IdentifierToken("console")
  /\ tokens[i + 1].type = "DOT"
  /\ tokens[i + 2].type = "IDENTIFIER"
  /\ tokens[i + 2].value \in {"log", "error", "warn", "info", "debug", "trace"}
  /\ tokens[i + 3].type = "LPAREN"
  /\ \E j \in (i + 4)..Len(tokens) :
       /\ tokens[j] = IdentifierToken(name)
       /\ \A c \in (i + 4)..(j - 1) : ParenDepth(tokens, i + 4, c) >= 0

\* C9: a js block is rejected if and only if one of its listed inputs is a secret
\* binding and the block's text holds a call console.log/error/warn/info/debug/
\* trace(...) whose argument text mentions that input.
C9_RejectedIffSecretLogged ==
  op.name = "parseJSBlock" =>
    (op.error # NoError <=>
       \E n \in DOMAIN input.inputs :
         /\ input.inputs[n] \in input.secretVariables
         /\ \E i \in DOMAIN input.tokens :
              ConsoleCallMentions(input.tokens, i, input.inputs[n]))

(***************************************************************************)
(* The parser's reading of `|` (src/unnamed/part_000, parseBitOr).         *)
(***************************************************************************)
EOFToken == Token("EOF", "")

\* new Parser(tokens): isSignificantNewline is false for every token, so every
\* NEWLINE token is dropped (the scanner ends the tokens with EOF)
ParserTokens(tokens) == SelectSeq(tokens, LAMBDA t : t.type # "NEWLINE")

\* the token after the closing `|`, newlines skipped; EOF when there is none
RECURSIVE nextNonNewline(_, _)
nextNonNewline(tokens, j) ==
  IF j > Len(tokens) THEN EOFToken
  ELSE IF tokens[j].type = "NEWLINE" THEN nextNonNewline(tokens, j + 1)
  ELSE tokens[j]

RECURSIVE scanForClosingBar(_, _, _)
\* isPatternMatchStart: the for loop from index i with depth bars seen
scanForClosingBar(tokens, i, depth) ==
  IF i > Len(tokens) THEN FALSE
  ELSE IF tokens[i].type = "BITOR"
  THEN IF depth + 1 = 2 /\ i + 1 <= Len(tokens)
       THEN nextNonNewline(tokens, i + 1).type = "FAT_ARROW"
       ELSE scanForClosingBar(tokens, i + 1, depth + 1)
  ELSE IF tokens[i].type \in {"NEWLINE", "EOF"} /\ depth = 0 THEN FALSE
  ELSE scanForClosingBar(tokens, i + 1, depth)

\* isPatternMatchStart with this.tokens = tokens and this.pos = pos
isPatternMatchStart(tokens, pos) ==
  IF tokens[pos].type # "BITOR" THEN FALSE ELSE scanForClosingBar(tokens, pos, 0)

\* parseBitOr standing on the `|` at pos after its left operand: it leaves the `|`
\* to start a pattern guard, or consumes it as the bitwise-OR operator
parseBitOr(tokens, pos) ==
  IF isPatternMatchStart(tokens, pos) THEN "PatternGuard" ELSE "BitwiseOr"

\* the parser was built on input.tokens and parseBitOr stands on the `|` at input.pos
ParseBitOr ==
  /\ op' = [name |-> "parseBitOr",
            value |-> parseBitOr(ParserTokens(input.tokens), input.pos)]
  /\ UNCHANGED <<moduleRegistry, moduleTypeRegistry, input>>

(***************************************************************************)
(* SpecBitOr: a left operand, a `|`, and the tokens that follow it.        *)
(***************************************************************************)
\* a  /  |  /  =>  /  end of line
LookaheadTokens ==
  { IdentifierToken("a"), Token("BITOR", "|"), Token("FAT_ARROW", "=>"),
    Token("NEWLINE", "\n") }

\* a | ... EOF, the parser standing on the first `|`
BitOrInputs ==
  { [tokens |-> <<IdentifierToken("a"), Token("BITOR", "|")>> \o rest \o <<EOFToken>>,
     pos |-> 2] : rest \in SeqsUpTo(LookaheadTokens, MaxLookahead) }

InitBitOr ==
  /\ InitRegistries
  /\ input \in BitOrInputs

NextBitOr == ParseBitOr

SpecBitOr == InitBitOr /\ [][NextBitOr]_vars

\* the `|` at j is followed, newlines ignored, by =>
BarThenArrow(tokens, j) ==
  /\ tokens[j].type = "BITOR"
  /\ \E k \in (j + 1)..Len(tokens) :
       /\ tokens[k].type = "FAT_ARROW"
       /\ \A n \in (j + 1)..(k - 1) : tokens[n].type = "NEWLINE"

\* the tokens of the statement the `|` at pos stands in: up to the end of its line
StatementWindow(tokens, pos) ==
  { j \in (pos + 1)..Len(tokens) :
      \A n \in (pos + 1)..j : tokens[n].type \notin {"NEWLINE", "EOF"} }

\* C10 as stated: the `|` is read as the start of a pattern guard if and only if a
\* second `|` followed (ignoring newlines) by `=>` exists within the current
\* statement's token window; otherwise it is parsed as bitwise-OR.
C10_GuardIffSecondBarInStatement ==
  op.name = "parseBitOr" =>
    /\ op.value \in {"PatternGuard", "BitwiseOr"}
    /\ op.value = "PatternGuard" <=>
         \E j \in StatementWindow(input.tokens, input.pos) : BarThenArrow(input.tokens, j)

\* What the look-ahead computes: a pattern guard exactly when the next `|` after
\* the current one, anywhere in the rest of the token stream, is followed
\* (ignoring newlines) by `=>`.
GuardIffNextBarThenArrow ==
  op.name = "parseBitOr" =>
    /\ op.value \in {"PatternGuard", "BitwiseOr"}
    /\ op.value = "PatternGuard" <=>
         \E j \in (input.pos + 1)..Len(input.tokens) :
           /\ BarThenArrow(input.tokens, j)
           /\ \A n \in (input.pos + 1)..(j - 1) : input.tokens[n].type # "BITOR"

(***************************************************************************)
(* The code generator (src/unnamed/part_007, class CodeGenerator).         *)
(* Emitted JavaScript is kept as text: an expression is a string, the      *)
(* output a sequence of lines [indent, code] as emitLine writes them.      *)
(***************************************************************************)
BinaryExpression(operator, left, right) ==
  [type |-> "BinaryExpression", operator |-> operator, left |-> left, right |-> right]

CallExpression(callee, arguments) ==
  [type |-> "CallExpression", callee |-> callee, arguments |-> arguments]

\* parseUnary: operator is ! - or ~
UnaryExpression(operator, argument) ==
  [type |-> "UnaryExpression", operator |-> operator, argument |-> argument]

\* parsePrimary: a decimal NUMBER token; number is the parsed value, value the raw text
NumberLiteral(number) ==
  [type |-> "Literal", isNumber |-> TRUE, isString |-> FALSE, value |-> ToString(number),
   number |-> number]

\* parsePipe: left ~> right
PipeExpression(left, right) == [type |-> "PipeExpression", left |-> left, right |-> right]

\* parseFlow: name >> functions[1] functions[2] ...
FlowExpression(name, functions) ==
  [type |-> "FlowExpression", name |-> name, functions |-> functions]

\* parseShellBlock / parseShellBlockExpression
ShellBlock(inputs, command) ==
  [type |-> "ShellBlock", inputs |-> inputs, command |-> command]

\* Array.prototype.join
RECURSIVE join(_, _)
join(strings, separator) ==
  IF strings = <<>> THEN ""
  ELSE IF Len(strings) = 1 THEN strings[1]
  ELSE strings[1] \o separator \o join(Tail(strings), separator)

\* visitLiteral: a number keeps its raw text, a string goes through JSON.stringify
generateLiteral(node) ==
  IF node.isNumber THEN node.value ELSE "\"" \o node.value \o "\""

\* visitBinaryExpression, given the text of both operands
generateBinaryExpression(node, left, right) ==
  IF node.operator = "is" THEN "(" \o left \o "?.name === " \o right \o "?.name)"
  ELSE IF node.operator = "is not" THEN "(" \o left \o "?.name !== " \o right \o "?.name)"
  ELSE "(" \o left \o " " \o node.operator \o " " \o right \o ")"

generatePipeExpressionSwapped(left, right) == left \o "(" \o right \o ")"

\* visitPipeExpression, given the text of both sides
generatePipeExpression(left, right) == right \o "(" \o left \o ")"

RECURSIVE nestCalls(_, _, _)
\* visitFlowExpression: result = `${functions[i]}(${result})` for i from 1 on
nestCalls(functions, i, result) ==
  IF i > Len(functions) THEN result
  ELSE nestCalls(functions, i + 1, functions[i] \o "(" \o result \o ")")

\* visitFlowExpression
generateFlowExpression(node) ==
  IF Len(node.functions) = 0 THEN "const " \o node.name \o " = (x) => x"
  ELSE "const " \o node.name \o " = (..._args) => "
         \o nestCalls(node.functions, 2, node.functions[1] \o "(..._args)")

\* a member access emitted with the plain dot
generateMemberExpressionPlain(node, object, property) ==
  IF node.computed THEN object \o "[" \o property \o "]"
  ELSE object \o "." \o property

\* visitMemberExpression: `${object}?.[${property}]` and `${object}?.${node.property}`
generateMemberExpression(node, object, property) ==
  IF node.computed THEN object \o "?.[" \o property \o "]"
  ELSE object \o "?." \o property

RECURSIVE generateExpression(_)
\* visitExpression; "" stands for the throw `Unknown expression type`
generateExpression(node) ==
  CASE node.type = "Literal" -> generateLiteral(node)
    [] node.type = "Identifier" -> node.name
    [] node.type = "BinaryExpression" ->
         generateBinaryExpression(node, generateExpression(node.left),
                                  generateExpression(node.right))
    [] node.type = "UnaryExpression" -> node.operator \o generateExpression(node.argument)
    [] node.type = "CallExpression" ->
         generateExpression(node.callee) \o "("
           \o join([i \in DOMAIN node.arguments |-> generateExpression(node.arguments[i])],
                   ", ")
           \o ")"
    [] node.type = "MemberExpression" ->
         generateMemberExpression(node, generateExpression(node.object),
                                  IF node.computed THEN generateExpression(node.property)
                                  ELSE node.property)
    [] node.type = "AssignmentExpression" ->
         generateExpression(node.left) \o " " \o node.operator \o " "
           \o generateExpression(node.right)
    [] node.type = "ObjectExpression" ->
         \* visitObjectExpression, for keys that are plain identifiers
         IF node.properties = <<>> THEN "{}"
         ELSE "{ "
                \o join([i \in DOMAIN node.properties |->
                           IF node.properties[i].type = "SpreadElement"
                           THEN "..." \o generateExpression(node.properties[i].argument)
                           ELSE node.properties[i].key \o ": "
                                  \o generateExpression(node.properties[i].value)], ", ")
                \o " }"
    [] node.type = "PipeExpression" ->
         generatePipeExpression(generateExpression(node.left), generateExpression(node.right))
    [] node.type = "FlowExpression" -> generateFlowExpression(node)
    [] OTHER -> ""

RECURSIVE expressionThrows(_)
\* visitExpression reaches its default case somewhere below node
expressionThrows(node) ==
  CASE node.type \in {"Literal", "Identifier", "FlowExpression"} -> FALSE
    [] node.type \in {"BinaryExpression", "AssignmentExpression", "PipeExpression"} ->
         expressionThrows(node.left) \/ expressionThrows(node.right)
    [] node.type = "UnaryExpression" -> expressionThrows(node.argument)
    [] node.type = "ObjectExpression" ->
         \E i \in DOMAIN node.properties :
           IF node.properties[i].type = "SpreadElement"
           THEN expressionThrows(node.properties[i].argument)
           ELSE expressionThrows(node.properties[i].value)
    [] node.type = "CallExpression" ->
         \/ expressionThrows(node.callee)
         \/ \E i \in DOMAIN node.arguments : expressionThrows(node.arguments[i])
    [] node.type = "MemberExpression" ->
         \/ expressionThrows(node.object)
         \/ node.computed /\ expressionThrows(node.property)
    [] OTHER -> TRUE

\* fn / async fn / memo / async memo, with the parsed body
FunctionNode(name, params, body, async, memoized, exposed) ==
  [type |-> "FunctionDeclaration", name |-> name, params |-> params,
   body |-> [type |-> "BlockStatement", body |-> body],
   async |-> async, memoized |-> memoized, exposed |-> exposed]

BlockStatement(body) == [type |-> "BlockStatement", body |-> body]

IfStatement(test, consequent, alternate) ==
  [type |-> "IfStatement", test |-> test, consequent |-> BlockStatement(consequent),
   alternate |-> alternate]

WhileStatement(test, body) ==
  [type |-> "WhileStatement", test |-> test, body |-> BlockStatement(body)]

ReturnStatement(argument) == [type |-> "ReturnStatement", argument |-> argument]

MatchCase(test, consequent) == [type |-> "MatchCase", test |-> test, consequent |-> consequent]

\* parsePatternMatch: consecutive |test| => consequent cases
PatternMatch(cases) == [type |-> "PatternMatch", cases |-> cases]

\* parseEnumDeclaration: members [name, value], value NoNode when not given
EnumDeclaration(name, members, exposed) ==
  [type |-> "EnumDeclaration", name |-> name, members |-> members, exposed |-> exposed]

\* emitLine(code) at the current indent
Line(indent, code) == [indent |-> indent, code |-> code]

\* generateParams for plain parameter names
generateParams(params) == join(params, ", ")

\* visitEnumDeclaration: the loop from member i on, with the running autoValue
RECURSIVE enumMembers(_, _, _, _)
enumMembers(members, i, autoValue, indent) ==
  IF i > Len(members) THEN <<>>
  ELSE LET member == members[i]
           comma == IF i < Len(members) THEN "," ELSE ""
       IN IF member.value # NoNode
          THEN <<Line(indent, member.name \o ": " \o generateExpression(member.value) \o comma)>>
                 \o enumMembers(members, i + 1,
                                IF member.value.type = "Literal" /\ member.value.isNumber
                                THEN member.value.number + 1 ELSE autoValue,
                                indent)
          ELSE <<Line(indent, member.name \o ": " \o ToString(autoValue) \o comma)>>
                 \o enumMembers(members, i + 1, autoValue + 1, indent)

\* visitEnumDeclaration
generateEnumDeclaration(node, indent) ==
  <<Line(indent, "const " \o node.name \o " = Object.freeze({")>>
    \o enumMembers(node.members, 1, 0, indent + 1)
    \o <<Line(indent, "});"), Line(indent, "")>>

\* visitDecDeclaration (destructuring: the pattern's properties / elements)
generateDecDeclaration(node, indent) ==
  IF node.destructuring
  THEN IF node.pattern.type = "ObjectPattern"
       THEN <<Line(indent,
                   "const { "
                     \o join([i \in DOMAIN node.pattern.properties |->
                                IF node.pattern.properties[i].key = node.pattern.properties[i].value
                                THEN node.pattern.properties[i].key
                                ELSE node.pattern.properties[i].key \o ": "
                                       \o node.pattern.properties[i].value], ", ")
                     \o " } = _deepFreeze(" \o generateExpression(node.init) \o ");")>>
       ELSE <<Line(indent,
                   "const ["
                     \o join([i \in DOMAIN node.pattern.elements |->
                                IF node.pattern.elements[i] = NoNode THEN ""
                                ELSE node.pattern.elements[i].name], ", ")
                     \o "] = _deepFreeze(" \o generateExpression(node.init) \o ");")>>
  ELSE <<Line(indent, "const " \o node.name \o " = _deepFreeze("
                        \o generateExpression(node.init) \o ");")>>

RECURSIVE generateStatement(_, _, _)
RECURSIVE generateBody(_, _, _)
RECURSIVE generateIfStatement(_, _, _)
RECURSIVE generateCases(_, _, _, _)

\* for (const stmt of body) this.visitStatement(stmt, isTopLevel)
generateBody(body, isTopLevel, indent) ==
  IF body = <<>> THEN <<>>
  ELSE generateStatement(body[1], isTopLevel, indent)
         \o generateBody(Tail(body), isTopLevel, indent)

\* visitIfStatement(node, isElseIf)
generateIfStatement(node, isElseIf, indent) ==
  <<Line(indent, (IF isElseIf THEN "} else " ELSE "")
                   \o "if (" \o generateExpression(node.test) \o ") {")>>
    \o generateBody(node.consequent.body, FALSE, indent + 1)
    \o (IF node.alternate = NoNode THEN <<Line(indent, "}")>>
        ELSE IF node.alternate.type = "IfStatement"
        THEN generateIfStatement(node.alternate, TRUE, indent)
        ELSE <<Line(indent, "} else {")>>
               \o generateBody(node.alternate.body, FALSE, indent + 1)
               \o <<Line(indent, "}")>>)

\* visitPatternMatch: the loop from case i on; every arm's statements are visited
\* with the default isTopLevel = false
generateCases(cases, i, isTopLevel, indent) ==
  IF i > Len(cases) THEN <<>>
  ELSE <<Line(indent, (IF i = 1 THEN "if" ELSE "} else if")
                        \o " (" \o generateExpression(cases[i].test) \o ") {")>>
         \o (IF cases[i].consequent.type = "BlockStatement"
             THEN generateBody(cases[i].consequent.body, FALSE, indent + 1)
             ELSE generateStatement(cases[i].consequent, FALSE, indent + 1))
         \o (IF ~isTopLevel THEN <<Line(indent + 1, "return;")>> ELSE <<>>)
         \o generateCases(cases, i + 1, isTopLevel, indent)

\* visitPatternMatch(node, isTopLevel)
generatePatternMatch(node, isTopLevel, indent) ==
  generateCases(node.cases, 1, isTopLevel, indent)
    \o (IF Len(node.cases) > 0 THEN <<Line(indent, "}")>> ELSE <<>>)

\* visitFunctionDeclaration
generateFunctionDeclaration(node, indent) ==
  LET async == IF node.async THEN "async " ELSE ""
      params == generateParams(node.params)
  IN IF node.memoized
     THEN <<Line(indent, "const " \o node.name \o " = (() => {"),
            Line(indent + 1, "const _cache = new Map();"),
            Line(indent + 1, "return " \o async \o "function(" \o params \o ") {"),
            Line(indent + 2, "const _key = JSON.stringify([...arguments]);"),
            Line(indent + 2, "if (_cache.has(_key)) return _cache.get(_key);"),
            Line(indent + 2, IF node.async THEN "const _result = await (async () => {"
                             ELSE "const _result = (() => {")>>
            \o generateBody(node.body.body, FALSE, indent + 3)
            \o <<Line(indent + 2, "})();"),
                 Line(indent + 2, "_cache.set(_key, _result);"),
                 Line(indent + 2, "return _result;"),
                 Line(indent + 1, "};"),
                 Line(indent, "})();"),
                 Line(indent, "")>>
     ELSE <<Line(indent, async \o "function " \o node.name \o "(" \o params \o ") {")>>
            \o generateBody(node.body.body, FALSE, indent + 1)
            \o <<Line(indent, "}"), Line(indent, "")>>

\* visitStatement(node, isTopLevel); <<>> also stands for the default case's throw
generateStatement(node, isTopLevel, indent) ==
  CASE node.type = "DecDeclaration" -> generateDecDeclaration(node, indent)
    [] node.type = "FunctionDeclaration" -> generateFunctionDeclaration(node, indent)
    [] node.type = "IfStatement" -> generateIfStatement(node, FALSE, indent)
    [] node.type = "WhileStatement" ->
         <<Line(indent, "while (" \o generateExpression(node.test) \o ") {")>>
           \o generateBody(node.body.body, FALSE, indent + 1)
           \o <<Line(indent, "}")>>
    [] node.type = "ReturnStatement" ->
         IF node.argument # NoNode
         THEN <<Line(indent, "return " \o generateExpression(node.argument) \o ";")>>
         ELSE <<Line(indent, "return;")>>
    [] node.type = "PatternMatch" -> generatePatternMatch(node, isTopLevel, indent)
    [] node.type = "PrintStatement" ->
         <<Line(indent, "console.log(" \o generateExpression(node.argument) \o ");")>>
    [] node.type = "EnumDeclaration" -> generateEnumDeclaration(node, indent)
    [] node.type \in {"ArgDeclaration", "EnvDeclaration"} -> <<>>
    [] node.type = "ExpressionStatement" ->
         <<Line(indent, generateExpression(node.expression) \o ";")>>
    [] node.type = "BlockStatement" ->
         <<Line(indent, "{")>> \o generateBody(node.body, FALSE, indent + 1)
           \o <<Line(indent, "}")>>
    [] OTHER -> <<>>

RECURSIVE statementThrows(_)
\* visitStatement or visitExpression reaches its default case (`Unknown ... type`)
\* somewhere below node
statementThrows(node) ==
  CASE node.type = "DecDeclaration" -> expressionThrows(node.init)
    [] node.type \in {"FunctionDeclaration", "WhileStatement"} ->
         \/ node.type = "WhileStatement" /\ expressionThrows(node.test)
         \/ \E i \in DOMAIN node.body.body : statementThrows(node.body.body[i])
    [] node.type = "IfStatement" ->
         \/ expressionThrows(node.test)
         \/ \E i \in DOMAIN node.consequent.body : statementThrows(node.consequent.body[i])
         \/ node.alternate # NoNode /\ statementThrows(node.alternate)
    [] node.type = "BlockStatement" ->
         \E i \in DOMAIN node.body : statementThrows(node.body[i])
    [] node.type = "ReturnStatement" ->
         node.argument # NoNode /\ expressionThrows(node.argument)
    [] node.type = "PatternMatch" ->
         \E i \in DOMAIN node.cases :
           \/ expressionThrows(node.cases[i].test)
           \/ statementThrows(node.cases[i].consequent)
    [] node.type = "PrintStatement" -> expressionThrows(node.argument)
    [] node.type = "EnumDeclaration" ->
         \E i \in DOMAIN node.members :
           node.members[i].value # NoNode /\ expressionThrows(node.members[i].value)
    [] node.type \in {"ArgDeclaration", "EnvDeclaration"} -> FALSE
    [] node.type = "ExpressionStatement" -> expressionThrows(node.expression)
    [] OTHER -> TRUE

\* emitRuntimeExtensions: the first line of each helper it defines (bodies left out)
emitRuntimeExtensions ==
  <<Line(0, "// KimchiLang stdlib extensions"),
    Line(0, "if (!Array.prototype._kmExtended) {"),
    Line(0, "if (!String.prototype._kmExtended) {"),
    Line(0, "const _obj = {"),
    Line(0, "function error(message, name = \"Error\") {"),
    Line(0, "error.create = (name) => {"),
    Line(0, "class _Secret {"),
    Line(0, "function _secret(value) { return new _Secret(value); }"),
    Line(0, "function _deepFreeze(obj) {"),
    Line(0, "// Testing framework"),
    Line(0, "function _describe(name, fn) {"),
    Line(0, "function _test(name, fn) {"),
    Line(0, "function _expect(actual) {"),
    Line(0, "function _assert(condition, message) { if (!condition) throw new Error(message); }"),
    Line(0, "async function _runTests() {")>>

\* collectExports as the generator joins it: the exposed fn / dec names in order
\* (stmt.name of a destructuring dec is undefined)
exportNames(statements) ==
  LET exposed == SelectSeq(statements,
                           LAMBDA stmt : /\ stmt.type \in {"FunctionDeclaration", "DecDeclaration"}
                                         /\ stmt.exposed)
  IN [i \in DOMAIN exposed |->
        IF exposed[i].type = "DecDeclaration" /\ exposed[i].destructuring THEN "undefined"
        ELSE exposed[i].name]

\* visitProgram: the lines for the args (secret args left out)
generateArgs(argDeclarations) ==
  LET required == SelectSeq(argDeclarations, LAMBDA arg : arg.required)
  IN [i \in DOMAIN required |->
        Line(1, "if (_opts[\"" \o required[i].name
                  \o "\"] === undefined) throw new Error(\"Required argument '"
                  \o required[i].name \o "' not provided\");")]
       \o (IF required # <<>> THEN <<Line(1, "")>> ELSE <<>>)
       \o [i \in DOMAIN argDeclarations |->
             LET name == argDeclarations[i].name
             IN IF argDeclarations[i].defaultValue # NoNode
                THEN Line(1, "const " \o name \o " = _opts[\"" \o name
                               \o "\"] !== undefined ? _opts[\"" \o name \o "\"] : "
                               \o generateExpression(argDeclarations[i].defaultValue) \o ";")
                ELSE Line(1, "const " \o name \o " = _opts[\"" \o name \o "\"];")]
       \o (IF argDeclarations # <<>> THEN <<Line(1, "")>> ELSE <<>>)

\* visitProgram: the lines for the env declarations (no defaults, no secrets)
generateEnvs(envDeclarations) ==
  LET required == SelectSeq(envDeclarations, LAMBDA env : env.required)
  IN [i \in DOMAIN required |->
        Line(1, "if (process.env[\"" \o required[i].name
                  \o "\"] === undefined) throw new Error(\"Required environment variable '"
                  \o required[i].name \o "' not set\");")]
       \o (IF required # <<>> THEN <<Line(1, "")>> ELSE <<>>)
       \o [i \in DOMAIN envDeclarations |->
             Line(1, "const " \o envDeclarations[i].name \o " = process.env[\""
                       \o envDeclarations[i].name \o "\"];")]
       \o (IF envDeclarations # <<>> THEN <<Line(1, "")>> ELSE <<>>)

RECURSIVE pathParts(_, _, _)
\* parseDepStatement: dep.pathParts, the identifiers that dep.path joins with "."
pathParts(path, i, part) ==
  IF i > Len(path) THEN <<part>>
  ELSE IF SubSeq(path, i, i) = "." THEN <<part>> \o pathParts(path, i + 1, "")
  ELSE pathParts(path, i + 1, part \o SubSeq(path, i, i))

\* the import lines with the dotted path left as it is
generateImportsDotted(depStatements) ==
  [i \in DOMAIN depStatements |->
     Line(0, "import _dep_" \o depStatements[i].alias \o " from './"
               \o depStatements[i].path \o ".km';")]
    \o (IF depStatements # <<>> THEN <<Line(0, "")>> ELSE <<>>)

\* visitProgram: the import lines and the lines that resolve each dependency
generateImports(depStatements) ==
  [i \in DOMAIN depStatements |->
     Line(0, "import _dep_" \o depStatements[i].alias \o " from './"
               \o join(pathParts(depStatements[i].path, 1, ""), "/") \o ".km';")]
    \o (IF depStatements # <<>> THEN <<Line(0, "")>> ELSE <<>>)

generateDeps(depStatements) ==
  [i \in DOMAIN depStatements |->
     Line(1, "const " \o depStatements[i].alias \o " = _opts[\"" \o depStatements[i].path
               \o "\"] || _dep_" \o depStatements[i].alias \o "("
               \o (IF depStatements[i].overrides # NoNode
                   THEN generateExpression(depStatements[i].overrides) ELSE "")
               \o ");")]
    \o (IF depStatements # <<>> THEN <<Line(1, "")>> ELSE <<>>)

\* visitProgram, for a body none of whose statements throws
generateProgram(body) ==
  LET ofType(t) == SelectSeq(body, LAMBDA stmt : stmt.type = t)
      otherStatements ==
        SelectSeq(body, LAMBDA stmt :
                    stmt.type \notin {"DepStatement", "ArgDeclaration", "EnvDeclaration"})
  IN generateImports(ofType("DepStatement"))
       \o emitRuntimeExtensions
       \o <<Line(0, "export default function(_opts = {}) {")>>
       \o generateArgs(ofType("ArgDeclaration"))
       \o generateEnvs(ofType("EnvDeclaration"))
       \o generateDeps(ofType("DepStatement"))
       \o generateBody(otherStatements, TRUE, 1)
       \o (IF exportNames(otherStatements) # <<>>
           THEN <<Line(1, ""),
                  Line(1, "return { " \o join(exportNames(otherStatements), ", ") \o " };")>>
           ELSE <<>>)
       \o <<Line(0, "}")>>

\* generate(ast): the output, or the Error thrown on an unknown node type
generate(ast) ==
  IF \E i \in DOMAIN ast :
       /\ ast[i].type \notin {"DepStatement", "ArgDeclaration", "EnvDeclaration"}
       /\ statementThrows(ast[i])
  THEN [error |-> [kind |-> "Error", message |-> "Unknown node type"], output |-> <<>>,
        exports |-> <<>>]
  ELSE [error |-> NoError, output |-> generateProgram(ast),
        exports |-> exportNames(ast)]

\* generate(ast) called on the statements of `input`
Generate ==
  /\ op' = [name |-> "generate", value |-> generate(input)]
  /\ UNCHANGED <<moduleRegistry, moduleTypeRegistry, input>>

(***************************************************************************)
(* SpecPatternMatch: programs with a pattern match at the top level, in a  *)
(* nested block and in a function body, through the generator.             *)
(***************************************************************************)
\* |c| => print 1   and   |d| => { print "s" }
MatchArms ==
  <<MatchCase(Id("c"), PrintStatement(Lit("number"))),
    MatchCase(Id("d"), BlockStatement(<<PrintStatement(Lit("string"))>>))>>

PatternMatches == { PatternMatch(SubSeq(MatchArms, 1, n)) : n \in 1..2 }

PatternMatchStatements ==
  UNION { { pm,
            IfStatement(Id("t"), <<pm>>, NoNode),
            WhileStatement(Id("t"), <<pm>>),
            PatternMatch(<<MatchCase(Id("t"), BlockStatement(<<pm>>))>>),
            FunctionNode("f", <<"c">>, <<pm>>, FALSE, FALSE, FALSE),
            FunctionNode("g", <<"c">>, <<pm>>, FALSE, TRUE, FALSE),
            FunctionNode("h", <<"c">>, <<IfStatement(Id("t"), <<pm>>, NoNode)>>,
                         TRUE, FALSE, FALSE) } : pm \in PatternMatches }

PatternMatchSources == SeqsUpTo(PatternMatchStatements, MaxStmts) \ {<<>>}

InitPatternMatch ==
  /\ InitRegistries
  /\ input \in PatternMatchSources

NextPatternMatch == Generate

SpecPatternMatch == InitPatternMatch /\ [][NextPatternMatch]_vars

RECURSIVE ArmsOf(_, _, _)
\* the number of pattern-match arms at or below node that lie lexically inside a
\* function body (inside = TRUE) or outside every function body (inside = FALSE);
\* here is whether node itself lies inside a function body
ArmsOf(node, here, inside) ==
  LET Sum(body) ==
        LET RECURSIVE S(_)
            S(i) == IF i > Len(body) THEN 0 ELSE ArmsOf(body[i], here, inside) + S(i + 1)
        IN S(1)
  IN CASE node.type = "PatternMatch" ->
            (IF here = inside THEN Len(node.cases) ELSE 0)
              + Sum([i \in DOMAIN node.cases |-> node.cases[i].consequent])
       [] node.type = "FunctionDeclaration" ->
            LET RECURSIVE F(_)
                F(i) == IF i > Len(node.body.body) THEN 0
                        ELSE ArmsOf(node.body.body[i], TRUE, inside) + F(i + 1)
            IN F(1)
       [] node.type = "IfStatement" -> Sum(node.consequent.body)
       [] node.type = "WhileStatement" -> Sum(node.body.body)
       [] node.type = "BlockStatement" -> Sum(node.body)
       [] OTHER -> 0

RECURSIVE ArmsOfProgram(_, _)
ArmsOfProgram(ast, inside) ==
  IF ast = <<>> THEN 0 ELSE ArmsOf(ast[1], FALSE, inside) + ArmsOfProgram(Tail(ast), inside)

\* the number of emitted lines that are a bare `return;`
ReturnLines(output) == Len(SelectSeq(output, LAMBDA line : line.code = "return;"))

\* C11: each arm of a pattern match is emitted with a trailing `return;` if and only
\* if the pattern match is lexically inside a function body; a pattern match outside
\* every function body, at any block nesting depth, emits no return.  (The programs
\* hold no return statement of their own, so every bare `return;` line is an arm's.)
C11_ArmReturnsIffInsideFunction ==
  op.name = "generate" =>
    /\ op.value.error = NoError
    /\ ReturnLines(op.value.output) = ArmsOfProgram(input, TRUE)

(***************************************************************************)
(* The emitted memo wrapper at run time (part_007:442-468).  In the        *)
(* specifications that run emitted code, op holds the last step taken and  *)
(* the state of the emitted program after it.                              *)
(***************************************************************************)
\* JSON.stringify([...arguments]) for one argument written as JavaScript source:
\* undefined becomes null inside an array
stringifyArguments(argument) ==
  "[" \o (IF argument = "undefined" THEN "null" ELSE argument) \o "]"

\* the wrapper awaits an async IIFE exactly when the declaration is async
awaitsBody(declaration) ==
  \E i \in DOMAIN generateFunctionDeclaration(declaration, 0) :
    generateFunctionDeclaration(declaration, 0)[i].code = "const _result = await (async () => {"

\* the emitted program before any call: `const _cache = new Map()`, no call made
StartMemo == [name |-> "start", cache |-> EmptyMap, calls |-> <<>>, bodyRuns |-> {}]

\* one call of the emitted function, run up to its return or up to its `await`:
\*   const _key = JSON.stringify([...arguments]);
\*   if (_cache.has(_key)) return _cache.get(_key);
\*   const _result = [await] (() => { body })();
\*   _cache.set(_key, _result); return _result;
\* the body is `return n`
callMemo(declaration, state, argument) ==
  LET key == stringifyArguments(argument)
      call == Len(state.calls) + 1
  IN IF key \in DOMAIN state.cache
     THEN [name |-> "call", cache |-> state.cache, bodyRuns |-> state.bodyRuns,
           calls |-> Append(state.calls,
                            [key |-> key, status |-> "returned", value |-> state.cache[key]])]
     ELSE IF awaitsBody(declaration)
     THEN [name |-> "call", cache |-> state.cache, bodyRuns |-> state.bodyRuns \cup {call},
           calls |-> Append(state.calls,
                            [key |-> key, status |-> "awaiting", value |-> argument])]
     ELSE [name |-> "call", cache |-> MapSet(state.cache, key, argument),
           bodyRuns |-> state.bodyRuns \cup {call},
           calls |-> Append(state.calls,
                            [key |-> key, status |-> "returned", value |-> argument])]

\* the continuation after `await`: _cache.set(_key, _result); return _result;
resumeMemo(state, call) ==
  [name |-> "resume", bodyRuns |-> state.bodyRuns,
   cache |-> MapSet(state.cache, state.calls[call].key, state.calls[call].value),
   calls |-> [state.calls EXCEPT ![call].status = "returned"]]

\* the program calls the function with its next argument
CallMemo ==
  /\ Len(op.calls) < Len(input.arguments)
  /\ op' = callMemo(input.declaration, op, input.arguments[Len(op.calls) + 1])
  /\ UNCHANGED <<moduleRegistry, moduleTypeRegistry, input>>

\* the event loop resumes the oldest call suspended at its await
ResumeMemo ==
  /\ \E call \in DOMAIN op.calls :
       /\ op.calls[call].status = "awaiting"
       /\ \A earlier \in 1..(call - 1) : op.calls[earlier].status # "awaiting"
       /\ op' = resumeMemo(op, call)
  /\ UNCHANGED <<moduleRegistry, moduleTypeRegistry, input>>

(***************************************************************************)
(* SpecMemo: memo f(n) { return n } and async memo f(n) { return n },      *)
(* called up to MaxCalls times.                                            *)
(***************************************************************************)
MemoArguments == {"1", "2", "null", "undefined"}

MemoInputs ==
  { [declaration |-> FunctionNode("f", <<"n">>, <<ReturnStatement(Id("n"))>>,
                                  async, TRUE, FALSE),
     arguments |-> arguments] :
      async \in BOOLEAN,
      arguments \in SeqsUpTo(MemoArguments, MaxCalls) \ SeqsUpTo(MemoArguments, 1) }

InitMemo ==
  /\ moduleRegistry = EmptyMap
  /\ moduleTypeRegistry = EmptyMap
  /\ op = StartMemo
  /\ input \in MemoInputs

NextMemo == CallMemo \/ ResumeMemo

SpecMemo == InitMemo /\ [][NextMemo]_vars

\* C12: for a memo fn called twice with arguments that JSON.stringify to equal keys,
\* only the first call executes the function body, and the second call returns the
\* cached result of the first.
C12_SecondCallReturnsCached ==
  \A first, second \in DOMAIN op.calls :
    (first < second /\ op.calls[first].key = op.calls[second].key) =>
      /\ second \notin op.bodyRuns
      /\ op.calls[second].status = "returned" =>
           /\ op.calls[first].status = "returned"
           /\ op.calls[second].value = op.calls[first].value

\* What holds of the wrapper that is emitted for a memo that is not async.
MemoNotAsyncCachesFirstCall ==
  ~input.declaration.async => C12_SecondCallReturnsCached

(***************************************************************************)
(* Emitted pipe and flow chains at run time (part_007:910-938).            *)
(***************************************************************************)
RECURSIVE pipeFunctions(_)
\* the right-hand sides of a left-nested pipe, first applied first
pipeFunctions(node) ==
  IF node.type = "PipeExpression"
  THEN Append(pipeFunctions(node.left), node.right.name)
  ELSE <<>>

RECURSIVE pipeSource(_)
\* the value a pipe starts from
pipeSource(node) == IF node.type = "PipeExpression" THEN pipeSource(node.left) ELSE node

\* the functions of the chain in the order the emitted code calls them
chainFunctions(node) ==
  IF node.type = "FlowExpression" THEN node.functions ELSE pipeFunctions(node)

\* the emitted text is the plain nested call fn(...f2(f1(x))): every argument is the
\* call before it, with nothing awaited in between
emitsNestedCalls(node) ==
  IF node.type = "FlowExpression"
  THEN generateExpression(node)
         = "const " \o node.name \o " = (..._args) => "
             \o nestCalls(node.functions, 1, "..._args")
  ELSE generateExpression(node)
         = nestCalls(pipeFunctions(node), 1, generateExpression(pipeSource(node)))

\* a JavaScript value: a plain value, or a promise that will resolve to it
PlainValue(text) == [kind |-> "value", text |-> text]

PromiseOf(id, text) == [kind |-> "promise", id |-> id, text |-> text]

\* before the emitted expression is evaluated (for a flow: before name(x) is called)
StartChain == [name |-> "start", calls |-> <<>>, value |-> PlainValue("x"), settled |-> {}]

\* JavaScript evaluates fn(argument): the argument is passed as it is; an async
\* function returns a pending promise, any other function its result
callNext(state, fn, async) ==
  LET result == fn \o "(" \o state.value.text \o ")"
      id == Len(state.calls) + 1
  IN [name |-> "call",
      calls |-> Append(state.calls,
                       [fn |-> fn, argument |-> state.value,
                        pending |-> /\ state.value.kind = "promise"
                                    /\ state.value.id \notin state.settled]),
      value |-> IF async THEN PromiseOf(id, result) ELSE PlainValue(result),
      settled |-> state.settled]

\* the next call of the nested expression; the whole expression is evaluated in one
\* synchronous run
CallNext ==
  /\ emitsNestedCalls(input.expression)
  /\ Len(op.calls) < Len(chainFunctions(input.expression))
  /\ LET fn == chainFunctions(input.expression)[Len(op.calls) + 1]
     IN op' = callNext(op, fn, fn \in input.asyncFunctions)
  /\ UNCHANGED <<moduleRegistry, moduleTypeRegistry, input>>

\* a promise settles: only once the synchronous run has ended
Settle ==
  /\ Len(op.calls) = Len(chainFunctions(input.expression))
  /\ \E call \in DOMAIN op.calls :
       /\ op.calls[call].fn \in input.asyncFunctions
       /\ call \notin op.settled
       /\ op' = [op EXCEPT !.name = "settle", !.settled = @ \cup {call}]
  /\ UNCHANGED <<moduleRegistry, moduleTypeRegistry, input>>

(***************************************************************************)
(* SpecChain: x ~> f ~> g ... and name >> f g ..., each function async or  *)
(* not.                                                                    *)
(***************************************************************************)
ChainFunctionNames == {"f", "g"}

RECURSIVE pipeOf(_, _)
\* the parser's left-nested tree for x ~> functions[1] ~> ... ~> functions[n]
pipeOf(functions, n) ==
  IF n = 0 THEN Id("x") ELSE PipeExpression(pipeOf(functions, n - 1), Id(functions[n]))

ChainInputs ==
  { [expression |-> expression, asyncFunctions |-> asyncFunctions] :
      expression \in
        UNION { { pipeOf(functions, Len(functions)), FlowExpression("name", functions) } :
                  functions \in SeqsUpTo(ChainFunctionNames, MaxCalls)
                                  \ SeqsUpTo(ChainFunctionNames, 1) },
      asyncFunctions \in SUBSET ChainFunctionNames }

InitChain ==
  /\ moduleRegistry = EmptyMap
  /\ moduleTypeRegistry = EmptyMap
  /\ op = StartChain
  /\ input \in ChainInputs

NextChain == CallNext \/ Settle

SpecChain == InitChain /\ [][NextChain]_vars

\* C13: pipe and flow chains await each step: when a step is async, the next function
\* is called only after that step's promise has resolved and receives the resolved
\* value, never the pending promise, and the chain as a whole yields a promise.
C13_EachStepAwaited ==
  /\ \A call \in DOMAIN op.calls :
       (call > 1 /\ op.calls[call - 1].fn \in input.asyncFunctions) =>
         /\ ~op.calls[call].pending
         /\ op.calls[call].argument.kind = "value"
  /\ (Len(op.calls) = Len(chainFunctions(input.expression))
        /\ \E fn \in input.asyncFunctions :
             \E i \in DOMAIN chainFunctions(input.expression) :
               chainFunctions(input.expression)[i] = fn)
       => op.value.kind = "promise"

(***************************************************************************)
(* Parsing a pipe or flow expression from its tokens                       *)
(* (part_000:1313-1366) and emitting it.                                   *)
(***************************************************************************)
RECURSIVE parsePipeFrom(_, _, _)
\* parsePipe after its first operand: while (this.match(PIPE)) { right = parseOr() ... }
\* with identifiers as operands; pos is the next token
parsePipeFrom(tokens, pos, left) ==
  IF pos <= Len(tokens) /\ tokens[pos].type = "PIPE"
  THEN IF pos + 1 <= Len(tokens) /\ tokens[pos + 1].type = "IDENTIFIER"
       THEN parsePipeFrom(tokens, pos + 2, PipeExpression(left, Id(tokens[pos + 1].value)))
       ELSE [error |-> [kind |-> "ParseError", message |-> "Unexpected token"],
             node |-> NoNode, pos |-> pos + 1]
  ELSE [error |-> NoError, node |-> left, pos |-> pos]

RECURSIVE flowFunctions(_, _)
\* parseFlow: while (this.check(IDENTIFIER)) functions.push(this.advance().value)
flowFunctions(tokens, pos) ==
  IF pos <= Len(tokens) /\ tokens[pos].type = "IDENTIFIER"
  THEN <<tokens[pos].value>> \o flowFunctions(tokens, pos + 1)
  ELSE <<>>

\* parseFlow on tokens that start with an identifier
parseFlow(tokens) ==
  LET left == parsePipeFrom(tokens, 2, Id(tokens[1].value))
  IN IF left.error # NoError THEN left
     ELSE IF left.pos <= Len(tokens) /\ tokens[left.pos].type = "FLOW"
     THEN IF left.node.type # "Identifier"
          THEN [error |-> [kind |-> "ParseError",
                           message |-> "Left side of >> must be an identifier"],
                node |-> NoNode, pos |-> left.pos + 1]
          ELSE IF flowFunctions(tokens, left.pos + 1) = <<>>
          THEN [error |-> [kind |-> "ParseError",
                           message |-> "Expected at least one function after >>"],
                node |-> NoNode, pos |-> left.pos + 1]
          ELSE [error |-> NoError,
                node |-> FlowExpression(left.node.name, flowFunctions(tokens, left.pos + 1)),
                pos |-> left.pos + 1 + Len(flowFunctions(tokens, left.pos + 1))]
     ELSE left

\* an expression statement made of these tokens, parsed and emitted
emitParsed(parsed) ==
  IF parsed.error # NoError THEN [name |-> "emit", error |-> parsed.error, code |-> ""]
  ELSE [name |-> "emit", error |-> NoError, code |-> generateExpression(parsed.node)]

EmitExpression ==
  /\ op' = emitParsed(parseFlow(ParserTokens(input.tokens)))
  /\ UNCHANGED <<moduleRegistry, moduleTypeRegistry, input>>

(***************************************************************************)
(* SpecCompose: x ~> f ~> g ... and name >> f g ... from tokens to text.   *)
(***************************************************************************)
ComposeFunctionNames == {"f", "g", "h"}

\* x [newline] ~> f [newline] ~> g ...
RECURSIVE pipeTokens(_, _)
pipeTokens(functions, newlines) ==
  IF functions = <<>> THEN <<IdentifierToken("x")>>
  ELSE pipeTokens(SubSeq(functions, 1, Len(functions) - 1), newlines)
         \o (IF newlines THEN <<Token("NEWLINE", "\n")>> ELSE <<>>)
         \o <<Token("PIPE", "~>"), IdentifierToken(functions[Len(functions)])>>

\* name >> f g ...
flowTokens(functions) ==
  <<IdentifierToken("name"), Token("FLOW", ">>")>>
    \o [i \in DOMAIN functions |-> IdentifierToken(functions[i])]

ComposeInputs ==
  UNION { { [kind |-> "pipe", functions |-> functions,
             tokens |-> pipeTokens(functions, FALSE) \o <<EOFToken>>],
            [kind |-> "pipe", functions |-> functions,
             tokens |-> pipeTokens(functions, TRUE) \o <<EOFToken>>],
            [kind |-> "flow", functions |-> functions,
             tokens |-> flowTokens(functions) \o <<EOFToken>>],
            [kind |-> "malformed", functions |-> functions,
             tokens |-> pipeTokens(functions, FALSE) \o <<Token("FLOW", ">>"), EOFToken>>] } :
          functions \in SeqsUpTo(ComposeFunctionNames, MaxCalls) \ {<<>>} }

InitCompose ==
  /\ InitRegistries
  /\ input \in ComposeInputs

NextCompose == EmitExpression

SpecCompose == InitCompose /\ [][NextCompose]_vars

RECURSIVE Applied(_, _)
\* the last function applied to the result of the ones before it: g(f(argument))
Applied(functions, argument) ==
  IF functions = <<>> THEN argument
  ELSE functions[Len(functions)]
         \o "(" \o Applied(SubSeq(functions, 1, Len(functions) - 1), argument) \o ")"

FactoryStatements ==
  UNION { { DecDeclaration("a", Lit("number"), exposed),
            DecObjectPattern(<<Property("x", "x")>>,
                             ObjectExpression(<<Property("x", Lit("number"))>>), exposed),
            FunctionNode("f", <<>>, <<ReturnStatement(NoNode)>>, FALSE, FALSE, exposed),
            FunctionNode("m", <<"n">>, <<ReturnStatement(Id("n"))>>, FALSE, TRUE, exposed),
            EnumDeclaration("E", <<[name |-> "A", value |-> NoNode]>>, exposed) } :
          exposed \in BOOLEAN }

FactorySources == SeqsUpTo(FactoryStatements, MaxStmts)

InitFactory ==
  /\ InitRegistries
  /\ input \in FactorySources

NextFactory == Generate

SpecFactory == InitFactory /\ [][NextFactory]_vars

\* the names the top-level declarations of a module bind, exposed or private
NamesDeclared(ast, exposed) ==
  UNION { (IF ast[i].exposed # exposed THEN {}
           ELSE IF ast[i].type = "DecDeclaration" /\ ast[i].destructuring
           THEN patternNamesBound(ast[i].pattern)
           ELSE {ast[i].name}) : i \in DOMAIN ast }

\* the keys of the object the emitted factory returns, read off its return line
\* (no return line: the factory returns no object at all)
ReturnedKeys(value) ==
  IF \E i \in DOMAIN value.output :
       value.output[i] = Line(1, "return { " \o join(value.exports, ", ") \o " };")
  THEN { value.exports[i] : i \in DOMAIN value.exports }
  ELSE {}

\* C15: the object returned by the emitted module factory contains every top-level
\* declaration marked expose (dec, fn, memo or enum) under its declared name, and
\* contains no declaration that is not marked expose.
C15_FactoryReturnsExactlyExposed ==
  op.name = "generate" =>
    /\ op.value.error = NoError
    /\ NamesDeclared(input, TRUE) \subseteq ReturnedKeys(op.value)
    /\ ReturnedKeys(op.value) \cap NamesDeclared(input, FALSE)
         \subseteq NamesDeclared(input, TRUE)

\* What holds of the emitted factory when expose enum and destructuring expose dec are
\* set aside: the returned keys are exactly the exposed dec, fn and memo names.
FactoryReturnsExposedDecAndFn ==
  (/\ op.name = "generate"
   /\ \A i \in DOMAIN input :
        ~(input[i].exposed /\ (\/ input[i].type = "EnumDeclaration"
                                \/ (input[i].type = "DecDeclaration"
                                      /\ input[i].destructuring)))) =>
    ReturnedKeys(op.value) = NamesDeclared(input, TRUE)

(***************************************************************************)
(* SpecEnum: one enum whose members have no value, a number, a negated     *)
(* number or a string.                                                     *)
(***************************************************************************)
EnumMemberNames == <<"A", "B", "C", "D">>

EnumValues ==
  { NoNode, NumberLiteral(0), NumberLiteral(10), UnaryExpression("-", NumberLiteral(5)),
    Lit("string") }

EnumSources ==
  { <<EnumDeclaration("C", [i \in DOMAIN values |->
                              [name |-> EnumMemberNames[i], value |-> values[i]]], FALSE)>> :
      values \in SeqsUpTo(EnumValues, MaxMembers) \ {<<>>} }

InitEnum ==
  /\ InitRegistries
  /\ input \in EnumSources

NextEnum == Generate

SpecEnum == InitEnum /\ [][NextEnum]_vars

\* the number an explicit member value denotes
NumberOf(value) ==
  IF value.type = "UnaryExpression" THEN 0 - value.argument.number ELSE value.number

IsNumber(value) ==
  \/ value.type = "Literal" /\ value.isNumber
  \/ value.type = "UnaryExpression" /\ value.operator = "-"

RECURSIVE Counter(_, _)
\* the running counter at member i: 0 at the first member, one more than the member
\* before it otherwise (its explicit value if it has one, the counter it got if not)
Counter(members, i) ==
  IF i = 1 THEN 0
  ELSE IF members[i - 1].value = NoNode THEN Counter(members, i - 1) + 1
  ELSE NumberOf(members[i - 1].value) + 1

RECURSIVE CounterDefined(_, _)
\* the counter at member i is a number: no member before it has a value that is not
\* a number, unless a later number value has reset the counter since
CounterDefined(members, i) ==
  \/ i = 1
  \/ members[i - 1].value = NoNode /\ CounterDefined(members, i - 1)
  \/ members[i - 1].value # NoNode /\ IsNumber(members[i - 1].value)

\* the emitted line of member i reads `name: number`
EmittedValue(output, members, i, number) ==
  \E n \in DOMAIN output :
    output[n] = Line(2, members[i].name \o ": " \o ToString(number)
                          \o (IF i < Len(members) THEN "," ELSE ""))

\* C16: each member without an explicit value gets the running counter, which starts
\* at 0 and increases by one per member; every explicit member value resets the
\* counter so that the next implicit member gets that explicit value plus one.
C16_EnumCounter ==
  op.name = "generate" =>
    /\ op.value.error = NoError
    /\ \A i \in DOMAIN input[1].members :
         (input[1].members[i].value = NoNode /\ CounterDefined(input[1].members, i)) =>
           EmittedValue(op.value.output, input[1].members, i, Counter(input[1].members, i))

\* What holds when the explicit values are number literals without a sign.
EnumCounterAfterNumberLiterals ==
  (\A i \in DOMAIN input[1].members :
     input[1].members[i].value # NoNode => input[1].members[i].value.type = "Literal"
                                             /\ input[1].members[i].value.isNumber)
    => C16_EnumCounter

(***************************************************************************)
(* SpecIs: binary expressions, among them `is` and `is not`, emitted.      *)
(***************************************************************************)
\* this.visitExpression(node) for the expression `input`
VisitExpression ==
  /\ op' = [name |-> "visitExpression", throws |-> expressionThrows(input),
            code |-> generateExpression(input)]
  /\ UNCHANGED <<moduleRegistry, moduleTypeRegistry, input>>

IsOperands ==
  { Id("e"), Id("NotFoundError"), Member(Id("e"), "cause"),
    CallExpression(Id("f"), <<Id("e")>>), Lit("string") }

IsOperators == {"is", "is not", "==", "!="}

IsInputs ==
  { BinaryExpression(operator, left, right) :
      operator \in IsOperators, left \in IsOperands, right \in IsOperands }

InitIs ==
  /\ InitRegistries
  /\ input \in IsInputs

NextIs == VisitExpression

SpecIs == InitIs /\ [][NextIs]_vars

\* C17: `L is R` is emitted as (L?._id === R?._id) and `L is not R` as
\* (L?._id !== R?._id): the comparison is on the _id identity tag of both operands.
C17_IsComparesId ==
  op.name = "visitExpression" =>
    /\ input.operator = "is" =>
         op.code = "(" \o generateExpression(input.left) \o "?._id === "
                     \o generateExpression(input.right) \o "?._id)"
    /\ input.operator = "is not" =>
         op.code = "(" \o generateExpression(input.left) \o "?._id !== "
                     \o generateExpression(input.right) \o "?._id)"

\* What is emitted: the comparison is on the name property of both operands.
IsComparesName ==
  op.name = "visitExpression" =>
    /\ input.operator = "is" =>
         op.code = "(" \o generateExpression(input.left) \o "?.name === "
                     \o generateExpression(input.right) \o "?.name)"
    /\ input.operator = "is not" =>
         op.code = "(" \o generateExpression(input.left) \o "?.name !== "
                     \o generateExpression(input.right) \o "?.name)"

(***************************************************************************)
(* SpecShell: programs with shell blocks, as statements and as             *)
(* expressions, through the generator.                                     *)
(***************************************************************************)
ShellBlocks == { ShellBlock(<<>>, "ls"), ShellBlock(<<"name">>, "echo $name") }

ShellStatements ==
  ShellBlocks
    \cup { DecDeclaration("r", shell, FALSE) : shell \in ShellBlocks }
    \cup { FunctionNode("f", <<"name">>, <<shell>>, TRUE, FALSE, FALSE) : shell \in ShellBlocks }
    \cup { DecDeclaration("a", Lit("number"), FALSE), PrintStatement(Id("a")) }

ShellSources == SeqsUpTo(ShellStatements, MaxStmts) \ {<<>>}

InitShell ==
  /\ InitRegistries
  /\ input \in ShellSources

NextShell == Generate

SpecShell == InitShell /\ [][NextShell]_vars

RECURSIVE HasShellBlock(_)
\* a shell block, in statement or expression form, at or below node
HasShellBlock(node) ==
  CASE node.type = "ShellBlock" -> TRUE
    [] node.type = "DecDeclaration" -> HasShellBlock(node.init)
    [] node.type = "FunctionDeclaration" ->
         \E i \in DOMAIN node.body.body : HasShellBlock(node.body.body[i])
    [] OTHER -> FALSE

\* C18: every program containing a shell block (statement or expression form)
\* compiles: the generator returns emitted text for it (text that calls a runtime
\* shell helper included in the preamble).
C18_ShellBlockCompiles ==
  (op.name = "generate" /\ \E i \in DOMAIN input : HasShellBlock(input[i])) =>
    /\ op.value.error = NoError
    /\ op.value.output # <<>>

\* What the generator does: it throws exactly on the programs that hold a shell block.
ShellBlockThrows ==
  op.name = "generate" =>
    (op.value.error # NoError <=> \E i \in DOMAIN input : HasShellBlock(input[i]))

(***************************************************************************)
(* The scanner at a `/` (src/unnamed/part_006, canStartRegex, readRegex    *)
(* and case '/' of tokenize).  Source text is a sequence of characters.    *)
(***************************************************************************)
\* canStartRegex, given the tokens emitted so far
canStartRegex(tokens) ==
  IF Len(tokens) = 0 THEN TRUE
  ELSE tokens[Len(tokens)].type \notin
         {"NUMBER", "STRING", "TEMPLATE_STRING", "IDENTIFIER", "BOOLEAN", "NULL",
          "RPAREN", "RBRACKET", "RBRACE", "REGEX"}

RECURSIVE readFlags(_, _)
\* readRegex: while (/[gimsuy]/.test(this.peek())) flags += this.advance()
readFlags(chars, i) ==
  IF i <= Len(chars) /\ chars[i] \in {"g", "i", "m", "s", "u", "y"}
  THEN chars[i] \o readFlags(chars, i + 1)
  ELSE ""

RECURSIVE readRegex(_, _, _)
\* readRegex from character i with the pattern read so far; past the end of chars
\* peek() is '\0'
readRegex(chars, i, pattern) ==
  IF i > Len(chars) \/ chars[i] = "\n"
  THEN [error |-> [kind |-> "LexerError", message |-> "Unterminated regex literal"],
        token |-> NoNode]
  ELSE IF chars[i] = "/"
  THEN [error |-> NoError,
        token |-> [type |-> "REGEX",
                   value |-> [pattern |-> pattern, flags |-> readFlags(chars, i + 1)]]]
  ELSE IF chars[i] = "\\"
  THEN IF i + 1 <= Len(chars) /\ chars[i + 1] # "\n"
       THEN readRegex(chars, i + 2, pattern \o chars[i] \o chars[i + 1])
       ELSE readRegex(chars, i + 1, pattern \o chars[i])
  ELSE readRegex(chars, i + 1, pattern \o chars[i])

\* tokenize, case '/': the `/` has been consumed, chars is the text after it
scanSlash(tokens, chars) ==
  IF Len(chars) >= 1 /\ chars[1] = "="
  THEN [error |-> NoError, token |-> Token("SLASH_ASSIGN", "/=")]
  ELSE IF canStartRegex(tokens) THEN readRegex(chars, 1, "")
  ELSE [error |-> NoError, token |-> Token("SLASH", "/")]

ScanSlash ==
  /\ op' = [name |-> "scanSlash", value |-> scanSlash(input.tokens, input.chars)]
  /\ UNCHANGED <<moduleRegistry, moduleTypeRegistry, input>>

(***************************************************************************)
(* SpecSlash: a `/` after each kind of token, followed by a few characters.*)
(***************************************************************************)
PrecedingTokenTypes ==
  {"NUMBER", "STRING", "TEMPLATE_STRING", "IDENTIFIER", "BOOLEAN", "NULL",
   "RPAREN", "RBRACKET", "RBRACE", "REGEX",
   "ASSIGN", "LPAREN", "COMMA", "RETURN", "NEWLINE", "PLUS"}

SlashChars == {"a", "=", "/", "g", "\\", "\n"}

SlashInputs ==
  { [tokens |-> tokens, chars |-> chars] :
      tokens \in {<<>>} \cup { <<Token(type, "")>> : type \in PrecedingTokenTypes },
      chars \in SeqsUpTo(SlashChars, MaxChars) }

InitSlash ==
  /\ InitRegistries
  /\ input \in SlashInputs

NextSlash == ScanSlash

SpecSlash == InitSlash /\ [][NextSlash]_vars

\* the scanner took the `/` for the start of a regex literal: it emitted the literal,
\* or failed on its missing end
ReadAsRegex(value) ==
  \/ value.error = NoError /\ value.token.type = "REGEX"
  \/ value.error # NoError /\ value.error.message = "Unterminated regex literal"

\* C19: after advancing past a `/` that does not start a comment, the scanner emits a
\* regex literal if and only if the previously emitted token is not a number, string,
\* template-string, identifier, boolean, null, closing paren/bracket/brace, or regex
\* literal.
C19_RegexIffNotAfterValue ==
  op.name = "scanSlash" =>
    (ReadAsRegex(op.value) <=>
       \/ input.tokens = <<>>
       \/ input.tokens[Len(input.tokens)].type \notin
            {"NUMBER", "STRING", "TEMPLATE_STRING", "IDENTIFIER", "BOOLEAN", "NULL",
             "RPAREN", "RBRACKET", "RBRACE", "REGEX"})

\* What holds when the character after the `/` is not `=`.
RegexIffNotAfterValueUnlessAssign ==
  (input.chars = <<>> \/ input.chars[1] # "=") => C19_RegexIffNotAfterValue

(***************************************************************************)
(* Step 2.8 on programs that hold an object literal somewhere              *)
(* (src/src/index.js l.74-93 with src/unnamed/part_003).                   *)
(***************************************************************************)
\* parsePrimary: a BOOLEAN token; the literal's value is written as its text
BooleanLiteral(value) ==
  [type |-> "Literal", isNumber |-> FALSE, isString |-> FALSE, value |-> value]

\* { a: 1, a: "s" }, { a: 1, b: "s" } and { "": 1, "": "s" }
LintObjects ==
  { ObjectExpression(<<Property(k[1], Lit("number")), Property(k[2], Lit("string"))>>) :
      k \in { <<"a", "a">>, <<"a", "b">>, <<"", "">> } }

\* the expressions an object literal is written in
LintExpressions ==
  UNION { { o,
            ObjectExpression(<<Property("o", o)>>),
            CallExpression(Id("f"), <<o>>),
            BinaryExpression("==", Id("x"), o),
            PipeExpression(o, Id("f")),
            PipeExpression(Id("x"), CallExpression(Id("f"), <<o>>)) } : o \in LintObjects }

\* the statements such an expression is written in
LintStatements ==
  UNION { { DecDeclaration("d", e, FALSE),
            PrintStatement(e),
            ExpressionStatement(AssignmentExpression("=", Member(Id("x"), "p"), e)),
            FunctionNode("g", <<>>, <<ReturnStatement(e)>>, FALSE, FALSE, FALSE),
            IfStatement(Id("x"), <<PrintStatement(e)>>, NoNode),
            IfStatement(BooleanLiteral("true"), <<>>, BlockStatement(<<PrintStatement(e)>>)),
            WhileStatement(BooleanLiteral("false"), <<PrintStatement(e)>>),
            PatternMatch(<<MatchCase(Id("x"), PrintStatement(e))>>),
            ArgDeclaration("k", FALSE, e),
            EnumDeclaration("E", <<[name |-> "A", value |-> e]>>, FALSE) } :
          e \in LintExpressions }

LintSources == { <<statement>> : statement \in LintStatements }

InitLint ==
  /\ moduleRegistry = EmptyMap
  /\ moduleTypeRegistry = EmptyMap
  /\ op = [name |-> "init"]
  /\ input \in LintSources

\* compile with the type checker skipped, with and without the linter
NextLint == Compile({input}, {NoPath}, { o \in Options : o.skipTypeCheck })

SpecLint == InitLint /\ [][NextLint]_vars

RECURSIVE RepeatedKeyIn(_)
\* an object literal with a repeated property name occurs somewhere below node
RepeatedKeyIn(node) ==
  CASE node.type = "ObjectExpression" ->
         \/ \E i, j \in DOMAIN node.properties :
              i < j /\ node.properties[i].key = node.properties[j].key
         \/ \E i \in DOMAIN node.properties : RepeatedKeyIn(node.properties[i].value)
    [] node.type = "CallExpression" ->
         RepeatedKeyIn(node.callee) \/ \E i \in DOMAIN node.arguments : RepeatedKeyIn(node.arguments[i])
    [] node.type \in {"BinaryExpression", "PipeExpression", "AssignmentExpression"} ->
         RepeatedKeyIn(node.left) \/ RepeatedKeyIn(node.right)
    [] node.type = "DecDeclaration" -> RepeatedKeyIn(node.init)
    [] node.type \in {"PrintStatement", "ReturnStatement"} -> RepeatedKeyIn(node.argument)
    [] node.type = "ExpressionStatement" -> RepeatedKeyIn(node.expression)
    [] node.type \in {"FunctionDeclaration", "WhileStatement"} -> RepeatedKeyIn(node.body)
    [] node.type = "BlockStatement" -> \E i \in DOMAIN node.body : RepeatedKeyIn(node.body[i])
    [] node.type = "IfStatement" ->
         RepeatedKeyIn(node.consequent) \/ RepeatedKeyIn(node.alternate)
    [] node.type = "PatternMatch" ->
         \E i \in DOMAIN node.cases : RepeatedKeyIn(node.cases[i].consequent)
    [] node.type = "ArgDeclaration" -> RepeatedKeyIn(node.defaultValue)
    [] node.type = "EnumDeclaration" ->
         \E i \in DOMAIN node.members : RepeatedKeyIn(node.members[i].value)
    [] OTHER -> FALSE

\* compile ran the linter and threw its Lint Error
FailedOnLint == op.name = "compile" /\ op.error = [kind |-> "LintError"]

\* C20: with linting enabled, compile fails because of the linter exactly when the
\* program holds, anywhere in its AST, an object literal with a repeated property name.
C20_LintFailsIffRepeatedKey ==
  (op.name = "compile" /\ ~op.options.skipLint) =>
    (FailedOnLint <=> \E i \in DOMAIN input : RepeatedKeyIn(input[i]))

\* What holds: compile fails on the linter exactly when the linter's walk adds a
\* duplicate-key message, and never when its messages are warnings and infos only.
LintFailsIffDuplicateKeyMessage ==
  op.name = "compile" =>
    (FailedOnLint <=> (~op.options.skipLint /\ "duplicate-key" \in lint(input)))

\* the linter reported warnings or infos only and compile returned the program
WarningsOnlyCompiled ==
  /\ op.name = "compile" /\ ~op.options.skipLint
  /\ lint(input) # {} /\ "duplicate-key" \notin lint(input)
  /\ op.error = NoError

(***************************************************************************)
(* The emitted _expect(actual).toThrow(msg) (src/unnamed/part_007 l.160).  *)
(* A text is a sequence of characters; actual is what calling it does.     *)
(***************************************************************************)
MaxMessage == 2

\* String.prototype.includes
includes(text, part) ==
  \E i \in 0..(Len(text) - Len(part)) : SubSeq(text, i + 1, i + Len(part)) = part

\* new Error("Expected to throw").message
ExpectedToThrow ==
  <<"E", "x", "p", "e", "c", "t", "e", "d", " ", "t", "o", " ", "t", "h", "r", "o", "w">>

\* toThrow(msg) { try { actual(); throw new Error("Expected to throw"); }
\*                catch(e) { if (msg && !e.message.includes(msg)) throw new Error(...); } }
\* the value the catch clause binds, then what the catch clause does with it
toThrow(actual, msg) ==
  LET e == IF actual.throws THEN actual.thrown
           ELSE [isError |-> TRUE, message |-> ExpectedToThrow]
      truthy == msg.defined /\ msg.text # <<>>
  IN IF ~truthy THEN [threw |-> FALSE, caught |-> e]
     ELSE IF ~e.isError THEN [threw |-> TRUE, caught |-> e]
     ELSE [threw |-> ~includes(e.message, msg.text), caught |-> e]

\* _expect(input.actual).toThrow(input.msg)
ToThrow ==
  /\ op.name = "init"
  /\ op' = [name |-> "toThrow", value |-> toThrow(input.actual, input.msg)]
  /\ UNCHANGED <<moduleRegistry, moduleTypeRegistry, input>>

MessageChars == {"t", "o", "x"}

Messages == SeqsUpTo(MessageChars, MaxMessage)

\* f returns, f throws an Error with a message, f throws a value that is no Error
ThrowBehaviours ==
  { [throws |-> FALSE, thrown |-> [isError |-> FALSE, message |-> <<>>]],
    [throws |-> TRUE, thrown |-> [isError |-> FALSE, message |-> <<>>]] }
    \cup { [throws |-> TRUE, thrown |-> [isError |-> TRUE, message |-> m]] : m \in Messages }

\* toThrow() and toThrow(message)
ThrowMessages ==
  { [defined |-> FALSE, text |-> <<>>] } \cup { [defined |-> TRUE, text |-> m] : m \in Messages }

InitToThrow ==
  /\ moduleRegistry = EmptyMap
  /\ moduleTypeRegistry = EmptyMap
  /\ op = [name |-> "init"]
  /\ input \in [actual : ThrowBehaviours, msg : ThrowMessages]

NextToThrow == ToThrow

SpecToThrow == InitToThrow /\ [][NextToThrow]_vars

\* C21: expect(f).toThrow() passes only if calling f throws an error, and
\* expect(f).toThrow(message) passes only if f throws an error whose message
\* contains message; if f returns normally the assertion fails.
C21_ToThrowPassesOnlyIfThrown ==
  (op.name = "toThrow" /\ ~op.value.threw) =>
    /\ input.actual.throws
    /\ input.msg.defined =>
         (input.actual.thrown.isError /\ includes(input.actual.thrown.message, input.msg.text))

\* What holds when f throws and the message, if one is given, is not empty: the
\* assertion passes exactly when no message is given or the error's message contains it.
ToThrowOnThrowingFunction ==
  (op.name = "toThrow" /\ input.actual.throws /\ (input.msg.defined => input.msg.text # <<>>)) =>
    (~op.value.threw <=>
       (input.msg.defined =>
          (input.actual.thrown.isError
             /\ includes(input.actual.thrown.message, input.msg.text))))

(***************************************************************************)
(* SpecMember: expressions that hold dotted access chains, emitted         *)
(* (src/unnamed/part_007 l.834-843).                                       *)
(***************************************************************************)
MaxChain == 3

RECURSIVE chainOf(_, _, _)
\* parseCall: root.properties[i].properties[i+1]... as left-nested member expressions
chainOf(object, properties, i) ==
  IF i > Len(properties) THEN object
  ELSE chainOf(Member(object, properties[i]), properties, i + 1)

DotChains ==
  { chainOf(Id("a"), properties, 1) :
      properties \in SeqsUpTo({"b", "c"}, MaxChain) \ {<<>>} }

\* the expressions a chain is written in
MemberInputs ==
  UNION { { chain,
            BinaryExpression("+", chain, Id("x")),
            BinaryExpression("is", chain, Member(Id("T"), "kind")),
            UnaryExpression("-", chain),
            CallExpression(chain, <<Id("x")>>),
            CallExpression(Id("f"), <<chain, Member(Id("x"), "y")>>),
            AssignmentExpression("=", Id("x"), chain),
            CallExpression(Id("g"), <<Index(chain, Id("i"))>>),
            Member(UnaryExpression("-", Id("x")), chain.property),
            Member(CallExpression(chain, <<>>), "d"),
            PipeExpression(chain, Id("f")) } : chain \in DotChains }

InitMember ==
  /\ InitRegistries
  /\ input \in MemberInputs

NextMember == VisitExpression

SpecMember == InitMember /\ [][NextMember]_vars

RECURSIVE IsDotChain(_)
\* node is written root.p1.p2... in the source
IsDotChain(node) ==
  \/ node.type = "Identifier"
  \/ node.type = "MemberExpression" /\ ~node.computed /\ IsDotChain(node.object)

RECURSIVE SourceChains(_)
\* the dotted access chains of the source text of node, each as long as it goes
SourceChains(node) ==
  CASE node.type = "MemberExpression" ->
         IF IsDotChain(node) THEN {node}
         ELSE SourceChains(node.object)
                \cup (IF node.computed THEN SourceChains(node.property) ELSE {})
    [] node.type \in {"BinaryExpression", "AssignmentExpression", "PipeExpression"} ->
         SourceChains(node.left) \cup SourceChains(node.right)
    [] node.type = "UnaryExpression" -> SourceChains(node.argument)
    [] node.type = "CallExpression" ->
         SourceChains(node.callee)
           \cup UNION { SourceChains(node.arguments[i]) : i \in DOMAIN node.arguments }
    [] OTHER -> {}

RECURSIVE SafeText(_, _)
\* the source text of a chain, piece by piece, with every `.` replaced by `?.`
SafeText(pieces, i) ==
  IF i > Len(pieces) THEN ""
  ELSE (IF pieces[i] = "." THEN "?." ELSE pieces[i]) \o SafeText(pieces, i + 1)

\* the characters of the operators that are not the member operator, and the blank
OperatorChars == {"+", "-", "*", "/", "%", "=", "!", "<", ">", "&", "|", "~", "^", ",", "(", " "}

\* the characters a property name starts with in SpecMember, and the bracket
PropertyStart == {"b", "c", "d", "y", "k", "n", "["}

\* every `?.` of text stands directly between an operand and a property or index
SafeAccessBetweenOperands(text) ==
  \A i \in 1..(Len(text) - 1) :
    SubSeq(text, i, i + 1) = "?." =>
      /\ i > 1 /\ SubSeq(text, i - 1, i - 1) \notin OperatorChars
      /\ i + 2 <= Len(text) /\ SubSeq(text, i + 2, i + 2) \in PropertyStart

ProgramStatements ==
  { DepStatement("http", "lib.http", NoNode),
    DepStatement("client", "project.salesforce.client", NoNode),
    DepStatement("q", "Q", ObjectExpression(<<Property("k", Lit("number"))>>)),
    ArgDeclaration("k", TRUE, NoNode),
    DecDeclaration("d", Lit("number"), TRUE),
    PrintStatement(Lit("string")),
    FunctionNode("hello", <<>>, <<PrintStatement(Lit("string"))>>, FALSE, FALSE, TRUE) }

ProgramSources == SeqsUpTo(ProgramStatements, MaxStmts)

InitProgram ==
  /\ InitRegistries
  /\ input \in ProgramSources

NextProgram == Generate

SpecProgram == InitProgram /\ [][NextProgram]_vars

\* the dep statements of the source, in source order
DepsOfInput == SelectSeq(input, LAMBDA stmt : stmt.type = "DepStatement")

RECURSIVE Slashed(_, _)
\* the text of a dotted path with every `.` replaced by `/`
Slashed(path, i) ==
  IF i > Len(path) THEN ""
  ELSE (IF SubSeq(path, i, i) = "." THEN "/" ELSE SubSeq(path, i, i)) \o Slashed(path, i + 1)

\* import _dep_<alias> from './dotted/path.km';
ImportLine(dep) ==
  Line(0, "import _dep_" \o dep.alias \o " from './" \o Slashed(dep.path, 1) \o ".km';")

\* the lines of the output that are import statements
ImportLines(output) ==
  { i \in DOMAIN output : Len(output[i].code) >= 7 /\ SubSeq(output[i].code, 1, 7) = "import " }

\* the lines of the output where the runtime preamble stands, when it stands in one piece
PreambleLines(output) ==
  { i \in DOMAIN output :
      \E start \in DOMAIN output :
        /\ start + Len(emitRuntimeExtensions) - 1 <= Len(output)
        /\ SubSeq(output, start, start + Len(emitRuntimeExtensions) - 1) = emitRuntimeExtensions
        /\ i \in start..(start + Len(emitRuntimeExtensions) - 1) }

\* the line that opens the factory
FactoryLines(output) ==
  { i \in DOMAIN output : output[i] = Line(0, "export default function(_opts = {}) {") }

defineInScope(st, kind, name, exposed) ==
  LET n == Len(st.scopes)
      entry == [name |-> name, kind |-> kind, used |-> FALSE, exposed |-> exposed]
  IN [st EXCEPT !.scopes[n] =
        { e \in st.scopes[n] : ~(e.name = name /\ e.kind = kind) } \cup {entry}]

RECURSIVE useVariable(_, _, _)
\* useVariable(name): the innermost scope that has the name, its variable before its
\* function, is marked used; i is the scope looked at
useVariable(st, name, i) ==
  IF i = 0 THEN st
  ELSE LET found == { e \in st.scopes[i] : e.name = name }
           hit == IF \E e \in found : e.kind = "variable"
                  THEN { e \in found : e.kind = "variable" } ELSE found
       IN IF found = {} THEN useVariable(st, name, i - 1)
          ELSE [st EXCEPT !.scopes[i] =
                  (st.scopes[i] \ hit) \cup { [e EXCEPT !.used = TRUE] : e \in hit }]

pushScope(st) == [st EXCEPT !.scopes = Append(st.scopes, {})]

\* String.prototype.startsWith('_')
startsWithUnderscore(name) == Len(name) >= 1 /\ SubSeq(name, 1, 1) = "_"

\* popScope: the variables of the scope that were not used are reported
popScope(st) ==
  LET n == Len(st.scopes) IN
  [scopes |-> SubSeq(st.scopes, 1, n - 1),
   messages |-> st.messages \cup
     { [rule |-> "unused-variable", name |-> e.name] :
         e \in { v \in st.scopes[n] :
                   v.kind = "variable" /\ ~v.used /\ ~startsWithUnderscore(v.name) } }]

RECURSIVE useExpression(_, _), useAll(_, _, _), useStatement(_, _), useBlock(_, _)
\* analyzeExpression: the calls of useVariable it makes below node
useExpression(node, st) ==
  CASE node.type = "Identifier" -> useVariable(st, node.name, Len(st.scopes))
    [] node.type \in {"BinaryExpression", "LogicalExpression", "AssignmentExpression"} ->
         useExpression(node.right, useExpression(node.left, st))
    [] node.type = "UnaryExpression" -> useExpression(node.argument, st)
    [] node.type = "CallExpression" ->
         useAll(node.arguments, 1, useExpression(node.callee, st))
    [] node.type = "MemberExpression" ->
         IF node.computed THEN useExpression(node.property, useExpression(node.object, st))
         ELSE useExpression(node.object, st)
    [] node.type = "ObjectExpression" ->
         useAll([i \in DOMAIN node.properties |->
                   IF node.properties[i].type = "SpreadElement"
                   THEN node.properties[i].argument ELSE node.properties[i].value], 1, st)
    [] OTHER -> st

\* the loop over a list of expressions or statements
useAll(nodes, i, st) ==
  IF i > Len(nodes) THEN st
  ELSE useAll(nodes, i + 1,
              IF nodes[i].type \in {"Identifier", "Literal", "BinaryExpression",
                                    "LogicalExpression", "AssignmentExpression",
                                    "UnaryExpression", "CallExpression", "MemberExpression",
                                    "ObjectExpression", "PipeExpression", "FlowExpression"}
              THEN useExpression(nodes[i], st) ELSE useStatement(nodes[i], st))

\* analyzeBlock between pushScope and popScope
useBlock(node, st) == popScope(useAll(node.body, 1, pushScope(st)))

RECURSIVE defineAll(_, _, _)
\* analyzeFunctionDeclaration: the parameters are defined in the function's scope
defineAll(params, i, st) ==
  IF i > Len(params) THEN st
  ELSE defineAll(params, i + 1, defineInScope(st, "variable", params[i], FALSE))

RECURSIVE useCases(_, _, _)
\* analyzePatternMatch: each case's test, then its consequent in a scope of its own
useCases(cases, i, st) ==
  IF i > Len(cases) THEN st
  ELSE useCases(cases, i + 1,
         popScope(useAll(IF cases[i].consequent.type = "BlockStatement"
                         THEN cases[i].consequent.body ELSE <<cases[i].consequent>>, 1,
                         pushScope(useExpression(cases[i].test, st)))))

\* analyzeStatement: what it does to the scopes
useStatement(node, st) ==
  CASE node.type = "DecDeclaration" -> useExpression(node.init, st)
    [] node.type = "FunctionDeclaration" ->
         popScope(useAll(node.body.body, 1, defineAll(node.params, 1, pushScope(st))))
    [] node.type = "IfStatement" ->
         LET then == useBlock(node.consequent, useExpression(node.test, st)) IN
         IF node.alternate.type = "BlockStatement" THEN useBlock(node.alternate, then)
         ELSE popScope(useStatement(node.alternate, pushScope(then)))
    [] node.type = "WhileStatement" -> useBlock(node.body, useExpression(node.test, st))
    [] node.type = "PatternMatch" -> useCases(node.cases, 1, st)
    [] node.type = "ReturnStatement" -> useExpression(node.argument, st)
    [] node.type = "PrintStatement" -> useExpression(node.argument, st)
    [] node.type = "ExpressionStatement" -> useExpression(node.expression, st)
    [] node.type = "BlockStatement" -> useAll(node.body, 1, st)
    [] OTHER -> st

RECURSIVE collectDeclarations(_, _, _)
\* collectDeclarations: the functions and the dec, enum, arg and env names of the top
\* level (a dec that is not destructuring)
collectDeclarations(ast, i, st) ==
  IF i > Len(ast) THEN st
  ELSE collectDeclarations(ast, i + 1,
         IF ast[i].type = "FunctionDeclaration"
         THEN defineInScope(st, "function", ast[i].name, ast[i].exposed)
         ELSE IF ast[i].type = "DecDeclaration" /\ ~ast[i].destructuring
         THEN defineInScope(st, "variable", ast[i].name, ast[i].exposed)
         ELSE IF ast[i].type = "EnumDeclaration"
         THEN defineInScope(st, "variable", ast[i].name, ast[i].exposed)
         ELSE IF ast[i].type \in {"ArgDeclaration", "EnvDeclaration"}
         THEN defineInScope(st, "variable", ast[i].name, FALSE)
         ELSE st)

\* checkUnused: the top scope's functions and variables that were not used
checkUnused(st) ==
  st.messages \cup
    { [rule |-> IF e.kind = "function" THEN "unused-function" ELSE "unused-variable",
       name |-> e.name] :
        e \in { d \in st.scopes[1] :
                  ~d.exposed /\ ~startsWithUnderscore(d.name) /\ ~d.used } }

\* lint(ast): its unused-variable and unused-function messages
lintUnused(ast) ==
  checkUnused(useAll(ast, 1, collectDeclarations(ast, 1, [scopes |-> <<{}>>, messages |-> {}])))

\* new Linter().lint(ast) for the program `input`
Lint ==
  /\ op' = [name |-> "lint", messages |-> lintUnused(input), rules |-> lint(input)]
  /\ UNCHANGED <<moduleRegistry, moduleTypeRegistry, input>>

(***************************************************************************)
(* SpecUnused: programs that declare names at the top level and inside     *)
(* functions and refer to some of them, through the linter.                *)
(***************************************************************************)
UnusedStatements ==
  { DecDeclaration("x", Lit("number"), FALSE),
    DecDeclaration("_y", Lit("number"), FALSE),
    DecDeclaration("z", Lit("number"), TRUE),
    FunctionNode("f", <<"p">>, <<ReturnStatement(Id("p"))>>, FALSE, FALSE, FALSE),
    FunctionNode("g", <<>>, <<DecDeclaration("n", Lit("number"), FALSE),
                              ReturnStatement(Lit("number"))>>, FALSE, FALSE, TRUE),
    FunctionNode("h", <<"q">>, <<ReturnStatement(Lit("number"))>>, FALSE, FALSE, TRUE),
    PrintStatement(Id("x")),
    PrintStatement(PipeExpression(Id("x"), Id("f"))),
    ExpressionStatement(CallExpression(Id("f"), <<Id("z")>>)),
    PrintStatement(Id("_y")) }

UnusedSources == SeqsUpTo(UnusedStatements, MaxStmts)

InitUnused ==
  /\ InitRegistries
  /\ input \in UnusedSources

NextUnused == Lint

SpecUnused == InitUnused /\ [][NextUnused]_vars

RECURSIVE DeclaredIn(_)
\* the names a statement declares, those declared inside a function body with them
DeclaredIn(node) ==
  CASE node.type = "DecDeclaration" ->
         {[name |-> node.name, rule |-> "unused-variable", exposed |-> node.exposed]}
    [] node.type = "FunctionDeclaration" ->
         {[name |-> node.name, rule |-> "unused-function", exposed |-> node.exposed]}
           \cup { [name |-> node.params[i], rule |-> "unused-variable", exposed |-> FALSE] :
                    i \in DOMAIN node.params }
           \cup UNION { DeclaredIn(node.body.body[i]) : i \in DOMAIN node.body.body }
    [] OTHER -> {}

RECURSIVE ReferencedIn(_)
\* the names written as identifiers anywhere below node
ReferencedIn(node) ==
  CASE node.type = "Identifier" -> {node.name}
    [] node.type = "PipeExpression" -> ReferencedIn(node.left) \cup ReferencedIn(node.right)
    [] node.type = "CallExpression" ->
         ReferencedIn(node.callee)
           \cup UNION { ReferencedIn(node.arguments[i]) : i \in DOMAIN node.arguments }
    [] node.type = "DecDeclaration" -> ReferencedIn(node.init)
    [] node.type \in {"PrintStatement", "ReturnStatement"} -> ReferencedIn(node.argument)
    [] node.type = "ExpressionStatement" -> ReferencedIn(node.expression)
    [] node.type = "FunctionDeclaration" ->
         UNION { ReferencedIn(node.body.body[i]) : i \in DOMAIN node.body.body }
    [] OTHER -> {}

\* the declaration is reported as unused
ReportedUnused(d) == [rule |-> d.rule, name |-> d.name] \in op.messages

\* the declaration ought to be reported: never referenced, no leading _, not exposed
OughtToBeReported(d) ==
  /\ d.name \notin UNION { ReferencedIn(input[i]) : i \in DOMAIN input }
  /\ ~startsWithUnderscore(d.name)
  /\ ~d.exposed

\* C24: the linter reports unused-variable / unused-function for a declared name if
\* and only if the name is never referenced anywhere in the program, does not begin
\* with `_`, and its declaration is not exposed.
C24_UnusedIffNeverReferenced ==
  op.name = "lint" =>
    \A d \in UNION { DeclaredIn(input[i]) : i \in DOMAIN input } :
      ReportedUnused(d) <=> OughtToBeReported(d)

\* What holds for the names declared at the top level and the parameters, in programs
\* that refer to no name inside a pipe.
UnusedTopLevelWithoutPipe ==
  (op.name = "lint"
     /\ \A i \in DOMAIN input :
          ~(input[i].type = "PrintStatement" /\ input[i].argument.type = "PipeExpression")) =>
    \A d \in UNION { DeclaredIn(input[i]) : i \in DOMAIN input } :
      d.name # "n" => (ReportedUnused(d) <=> OughtToBeReported(d))

(***************************************************************************)
(* SpecRollback: modules with required args whose compile fails after      *)
(* Step 2.5 (src/src/index.js l.42-93).                                    *)
(***************************************************************************)
\* !arg k  /  as m dep Q  /  print zz  /  print { a: 1, a: 1 }  /  print 1
RollbackStatements ==
  { ArgDeclaration("k", TRUE, NoNode),
    DepStatement("m", "Q", NoNode),
    PrintStatement(Id("zz")),
    PrintStatement(ObjectExpression(<<Property("a", Lit("number")),
                                      Property("a", Lit("number"))>>)),
    PrintStatement(Lit("number")) }

RollbackSources == SeqsUpTo(RollbackStatements, MaxStmts)

NextRollback == Compile(RollbackSources, Paths, Options)

SpecRollback == Init /\ [][NextRollback]_vars

\* the call threw at dep validation, at type checking or at linting
FailedAfterRegister ==
  /\ op.name = "compile"
  /\ op.error.kind \in {"CompileError", "JSTypeError", "TypeError", "LintError"}

\* C25: a compile call that fails at dep-override validation, type-checking or linting
\* leaves the registry exactly as it was before the call.
C25_FailedCompileLeavesRegistry ==
  [][ FailedAfterRegister' => moduleRegistry' = moduleRegistry ]_vars

\* What holds: such a call leaves the registry with the module's required args set,
\* as Step 2.5 wrote them before the failing step.
FailedCompileHasRegistered ==
  FailedAfterRegister =>
    /\ op.modulePath \in DOMAIN moduleRegistry
    /\ op.steps[3] = "register"

(***************************************************************************)
(* SpecMemo again: calls of an async memo that overlap.                    *)
(***************************************************************************)
\* call `second` was made with the key of call `first` while `first` is at its await
Overlapping(first, second) ==
  /\ first < second
  /\ op.calls[first].key = op.calls[second].key
  /\ op.calls[first].status = "awaiting"

\* C26: for an async memo, when a second call with the same key starts while the
\* first call's body is still awaiting, the body is executed only once and both calls
\* resolve to the same result.
C26_OverlappingCallsRunBodyOnce ==
  input.declaration.async =>
    \A first, second \in DOMAIN op.calls :
      (first < second /\ op.calls[first].key = op.calls[second].key) =>
        /\ Overlapping(first, second) => second \notin op.bodyRuns
        /\ (op.calls[first].status = "returned" /\ op.calls[second].status = "returned") =>
             op.calls[first].value = op.calls[second].value

\* What holds: every call that finds the first one at its await runs the body itself.
OverlappingCallsRunBodyAgain ==
  input.declaration.async =>
    \A first, second \in DOMAIN op.calls :
      (Overlapping(first, second)
         /\ \A earlier \in 1..(first - 1) : op.calls[earlier].key # op.calls[first].key) =>
        second \in op.bodyRuns

(***************************************************************************)
(* Statements parsed from tokens: the expression levels above parseFlow    *)
(* (src/unnamed/part_000 l.1237-1293, 346-403).                            *)
(***************************************************************************)
ConditionalExpression(test, consequent, alternate) ==
  [type |-> "ConditionalExpression", test |-> test, consequent |-> consequent,
   alternate |-> alternate]

\* the tokens from position pos on
tokensFrom(tokens, pos) == SubSeq(tokens, pos, Len(tokens))

RECURSIVE parseTernaryFrom(_), parseExpressionFrom(_)
\* parseTernary: test = parseFlow(); on `?` the consequent is parseExpression(), `:` is
\* expected and the alternate is parseTernary(); pos is the next token
parseTernaryFrom(tokens) ==
  LET test == parseFlow(tokens) IN
  IF test.error # NoError \/ tokens[test.pos].type # "QUESTION" THEN test
  ELSE LET consequent == parseExpressionFrom(tokensFrom(tokens, test.pos + 1))
           colon == test.pos + consequent.pos
       IN IF consequent.error # NoError THEN consequent
          ELSE IF tokens[colon].type # "COLON"
          THEN [error |-> [kind |-> "ParseError", message |-> "Expected :"],
                node |-> NoNode, pos |-> colon]
          ELSE LET alternate == parseTernaryFrom(tokensFrom(tokens, colon + 1)) IN
               IF alternate.error # NoError THEN alternate
               ELSE [error |-> NoError,
                     node |-> ConditionalExpression(test.node, consequent.node, alternate.node),
                     pos |-> colon + alternate.pos]

\* parseExpression / parseAssignment, for a left side that is no dec variable:
\* left = parseTernary(); on `=` the right side is parseAssignment()
parseExpressionFrom(tokens) ==
  LET left == parseTernaryFrom(tokens) IN
  IF left.error # NoError \/ tokens[left.pos].type # "ASSIGN" THEN left
  ELSE LET right == parseExpressionFrom(tokensFrom(tokens, left.pos + 1)) IN
       IF right.error # NoError THEN right
       ELSE [error |-> NoError,
             node |-> AssignmentExpression("=", left.node, right.node),
             pos |-> left.pos + right.pos]

\* parseStatement on `dec name = expression` and on an expression statement
parseStatementFrom(tokens) ==
  IF tokens[1].type = "DEC"
  THEN LET init == parseExpressionFrom(tokensFrom(tokens, 4)) IN
       IF init.error # NoError THEN init
       ELSE [error |-> NoError, node |-> DecDeclaration(tokens[2].value, init.node, FALSE),
             pos |-> 3 + init.pos]
  ELSE LET expression == parseExpressionFrom(tokens) IN
       IF expression.error # NoError THEN expression
       ELSE [error |-> NoError, node |-> ExpressionStatement(expression.node),
             pos |-> expression.pos]

\* new Parser(tokens).parse() on the one statement of input.tokens
ParseTokens ==
  /\ op' = [name |-> "parse", value |-> parseStatementFrom(ParserTokens(input.tokens))]
  /\ UNCHANGED <<moduleRegistry, moduleTypeRegistry, input>>

(***************************************************************************)
(* SpecFlow: `name >> f g` written as a statement, as a dec initializer,   *)
(* as the right side of an assignment and as a ternary branch.             *)
(***************************************************************************)
FlowInputs ==
  UNION { { [tokens |-> flowTokens(functions) \o <<EOFToken>>],
            [tokens |-> <<Token("DEC", "dec"), IdentifierToken("d"), Token("ASSIGN", "=")>>
                          \o flowTokens(functions) \o <<EOFToken>>],
            [tokens |-> <<Token("DEC", "dec"), IdentifierToken("d"), Token("ASSIGN", "=")>>
                          \o pipeTokens(functions, FALSE) \o <<EOFToken>>],
            [tokens |-> <<IdentifierToken("x"), Token("ASSIGN", "=")>>
                          \o flowTokens(functions) \o <<EOFToken>>],
            [tokens |-> <<IdentifierToken("x"), Token("ASSIGN", "=")>>
                          \o pipeTokens(functions, TRUE) \o <<EOFToken>>],
            [tokens |-> <<IdentifierToken("c"), Token("QUESTION", "?")>>
                          \o flowTokens(functions)
                          \o <<Token("COLON", ":"), IdentifierToken("y"), EOFToken>>],
            [tokens |-> <<IdentifierToken("c"), Token("QUESTION", "?")>>
                          \o pipeTokens(functions, FALSE)
                          \o <<Token("COLON", ":"), IdentifierToken("y"), EOFToken>>] } :
          functions \in SeqsUpTo(ComposeFunctionNames, MaxCalls - 1) \ {<<>>} }

InitFlow ==
  /\ InitRegistries
  /\ input \in FlowInputs

NextFlow == ParseTokens

SpecFlow == InitFlow /\ [][NextFlow]_vars

RECURSIVE ContainsFlow(_)
\* a FlowExpression node is node or stands somewhere below it
ContainsFlow(node) ==
  CASE node.type = "FlowExpression" -> TRUE
    [] node.type \in {"AssignmentExpression", "PipeExpression"} ->
         ContainsFlow(node.left) \/ ContainsFlow(node.right)
    [] node.type = "ConditionalExpression" ->
         ContainsFlow(node.test) \/ ContainsFlow(node.consequent) \/ ContainsFlow(node.alternate)
    [] OTHER -> FALSE

\* C27: in every AST the parser produces, a Flow node is the expression of a statement
\* `name >> f1 f2 ...`; it is never nested in a dec initializer, in the right side of
\* an assignment or in a ternary branch.
C27_FlowOnlyAtStatementLevel ==
  (op.name = "parse" /\ op.value.error = NoError) =>
    LET node == op.value.node IN
    /\ node.type = "DecDeclaration" => ~ContainsFlow(node.init)
    /\ (node.type = "ExpressionStatement" /\ node.expression.type # "FlowExpression") =>
         ~ContainsFlow(node.expression)

\* What holds: a Flow node stands wherever the tokens `name >>` stand at the start of
\* an expression.
FlowWhereverWritten ==
  (op.name = "parse" /\ op.value.error = NoError) =>
    LET node == op.value.node IN
    ContainsFlow(IF node.type = "DecDeclaration" THEN node.init ELSE node.expression)
      <=> \E i \in DOMAIN input.tokens : input.tokens[i].type = "FLOW"

(***************************************************************************)
(* SpecScope: dec declarations and assignments in different scopes, through *)
(* the parser's assignment guard (src/unnamed/part_000 l.76-82, 1263-1279). *)
(***************************************************************************)
\* fn f() { dec x = 1; return x }  /  fn g(x) { x = 1; return x }
\* fn h(y) { y.p += 1 }  /  dec y = 1  /  dec x = 1  /  x = 1
\* if c { dec x = 1 }  /  while c { x = 1 }  /  print 1
ScopeStatements ==
  { FunctionNode("f", <<>>, <<DecDeclaration("x", Lit("number"), FALSE),
                              ReturnStatement(Id("x"))>>, FALSE, FALSE, FALSE),
    FunctionNode("g", <<"x">>,
                 <<ExpressionStatement(AssignmentExpression("=", Id("x"), Lit("number"))),
                   ReturnStatement(Id("x"))>>, FALSE, FALSE, FALSE),
    FunctionNode("h", <<"y">>,
                 <<ExpressionStatement(AssignmentExpression("+=", Member(Id("y"), "p"),
                                                            Lit("number")))>>,
                 FALSE, FALSE, FALSE),
    DecDeclaration("y", Lit("number"), FALSE),
    DecDeclaration("x", Lit("number"), FALSE),
    ExpressionStatement(AssignmentExpression("=", Id("x"), Lit("number"))),
    IfStatement(Id("c"), <<DecDeclaration("x", Lit("number"), FALSE)>>, NoNode),
    WhileStatement(Id("c"),
                   <<ExpressionStatement(AssignmentExpression("=", Id("x"), Lit("number")))>>),
    PrintStatement(Lit("number")) }

ScopeSources == SeqsUpTo(ScopeStatements, MaxStmts)

InitScope ==
  /\ InitRegistries
  /\ input \in ScopeSources

NextScope == Compile({input}, {NoPath}, { o \in Options : o.skipTypeCheck })

SpecScope == InitScope /\ [][NextScope]_vars

RECURSIVE AssignsToDecInScope(_, _, _)
\* some assignment of body, from statement i on, has a root that is a dec binding in
\* scope there; scope holds the dec names visible before statement i
AssignsToDecInScope(body, i, scope) ==
  IF i > Len(body) THEN FALSE
  ELSE LET node == body[i] IN
       CASE node.type = "DecDeclaration" ->
              AssignsToDecInScope(body, i + 1, scope \cup {node.name})
         [] node.type = "ExpressionStatement" ->
              \/ /\ node.expression.type = "AssignmentExpression"
                 /\ getRootIdentifier(node.expression.left) \in scope
              \/ AssignsToDecInScope(body, i + 1, scope)
         [] node.type = "FunctionDeclaration" ->
              \/ AssignsToDecInScope(node.body.body, 1,
                                     scope \ { node.params[k] : k \in DOMAIN node.params })
              \/ AssignsToDecInScope(body, i + 1, scope)
         [] node.type = "IfStatement" ->
              \/ AssignsToDecInScope(node.consequent.body, 1, scope)
              \/ AssignsToDecInScope(body, i + 1, scope)
         [] node.type = "WhileStatement" ->
              \/ AssignsToDecInScope(node.body.body, 1, scope)
              \/ AssignsToDecInScope(body, i + 1, scope)
         [] OTHER -> AssignsToDecInScope(body, i + 1, scope)

RECURSIVE WrittenInOrder(_, _)
\* the dec names and the assignment roots of body in the order they are written
WrittenInOrder(body, i) ==
  IF i > Len(body) THEN <<>>
  ELSE LET node == body[i] IN
       (CASE node.type = "DecDeclaration" -> <<[dec |-> TRUE, name |-> node.name]>>
          [] node.type = "ExpressionStatement"
               /\ node.expression.type = "AssignmentExpression" ->
               <<[dec |-> FALSE, name |-> getRootIdentifier(node.expression.left)]>>
          [] node.type \in {"FunctionDeclaration", "WhileStatement"} ->
               WrittenInOrder(node.body.body, 1)
          [] node.type = "IfStatement" -> WrittenInOrder(node.consequent.body, 1)
          [] OTHER -> <<>>)
         \o WrittenInOrder(body, i + 1)

\* C28: the assignment guard rejects an assignment only when its root identifier is a
\* dec binding in scope at the assignment; an assignment to a parameter or another
\* name that only shares its spelling with a dec of a different scope is accepted.
C28_GuardRejectsOnlyDecInScope ==
  (op.name = "compile" /\ op.error.kind = "ParseError") =>
    AssignsToDecInScope(input, 1, {})

\* What holds: the guard rejects exactly when an assignment's root is spelled like a
\* dec name written anywhere before it, whatever the scopes of the two.
GuardRejectsSpelledLikeEarlierDec ==
  op.name = "compile" =>
    (op.error.kind = "ParseError" <=>
       LET written == WrittenInOrder(input, 1) IN
       \E i, j \in DOMAIN written :
         i < j /\ written[i].dec /\ ~written[j].dec /\ written[i].name = written[j].name)


(***************************************************************************)
(* SpecAssign: programs that assign to a property or an element of a       *)
(* parameter, through the generator (src/unnamed/part_007 l.822-826,       *)
(* 834-843; src/unnamed/part_000 l.1241-1261).                             *)
(***************************************************************************)
AssignOperators == {"=", "+=", "-="}

\* obj.a, arr[0], obj.a.b and arr[i].a: the targets, each with the parameter at its root
AssignTargets ==
  [obj |-> {Member(Id("obj"), "a"), chainOf(Id("obj"), <<"a", "b">>, 1)},
   arr |-> {Index(Id("arr"), Lit("number"))}]

\* fn set(obj) { obj.a = 1 }   fn bump(arr) { arr[0] += 1 }   and what stands around them
AssignStatements ==
  { FunctionNode("set", <<"obj">>,
                 <<ExpressionStatement(AssignmentExpression(operator, target, Lit("number")))>>,
                 FALSE, FALSE, FALSE) :
      operator \in AssignOperators, target \in AssignTargets.obj }
  \cup
  { FunctionNode("bump", <<"arr">>,
                 <<ExpressionStatement(AssignmentExpression(operator, target, Lit("number")))>>,
                 FALSE, FALSE, FALSE) :
      operator \in AssignOperators, target \in AssignTargets.arr }
  \cup
  { DecDeclaration("obj", Lit("number"), FALSE),
    FunctionNode("get", <<"obj">>, <<ReturnStatement(Member(Id("obj"), "a"))>>,
                 FALSE, FALSE, FALSE),
    PrintStatement(Lit("number")) }

AssignSources == SeqsUpTo(AssignStatements, MaxStmts)

InitAssign ==
  /\ InitRegistries
  /\ input \in AssignSources

NextAssign == Generate

SpecAssign == InitAssign /\ [][NextAssign]_vars


\* code has an assignment operator, with its blanks, from character i on
AssignmentAt(code, i) ==
  \E operator \in AssignOperators :
    /\ i + Len(operator) + 1 <= Len(code)
    /\ SubSeq(code, i, i + Len(operator) + 1) = " " \o operator \o " "

\* what the lines of the factory have to the left of their first assignment operator
EmittedTargets(output) ==
  { SubSeq(output[l].code, 1, i - 1) :
      <<l, i>> \in { p \in (DOMAIN output) \X (1..30) :
                       /\ \E f \in FactoryLines(output) : f < p[1]
                       /\ AssignmentAt(output[p[1]].code, p[2])
                       /\ \A j \in 1..(p[2] - 1) : ~AssignmentAt(output[p[1]].code, j) } }

\* compile(source) returns: the parser, the type checker and the linter accept source
CompileSucceeds(source) ==
  compile(source, NoPath, DefaultOptions, EmptyMap, EmptyMap).error = NoError

\* some statement of the source assigns to a property or an element
AssignsToMember(source) ==
  \E i \in DOMAIN source :
    /\ source[i].type = "FunctionDeclaration"
    /\ \E j \in DOMAIN source[i].body.body :
         /\ source[i].body.body[j].type = "ExpressionStatement"
         /\ source[i].body.body[j].expression.type = "AssignmentExpression"

\* C29: when compile succeeds on a program that assigns to a member or index target
\* whose root is not dec-bound (obj.a = 1, arr[0] += 1), the left-hand side of the
\* emitted assignment contains no `?.`.
C29_AssignmentTargetWithoutSafeAccess ==
  (op.name = "generate" /\ op.value.error = NoError /\ CompileSucceeds(input)) =>
    \A target \in EmittedTargets(op.value.output) : ~includes(target, "?.")

\* what the generator does: the left-hand side of every emitted assignment to a
\* member or index target goes through visitMemberExpression and carries `?.`
AssignmentTargetEmittedSafeAccess ==
  (op.name = "generate" /\ op.value.error = NoError /\ CompileSucceeds(input)) =>
    /\ AssignsToMember(input) =>
         \E target \in EmittedTargets(op.value.output) : includes(target, "?.")
    /\ \A target \in EmittedTargets(op.value.output) :
         \/ Len(target) >= 6 /\ SubSeq(target, 1, 6) = "const "
         \/ includes(target, "?.")



(***************************************************************************)
(* The testing runtime (src/unnamed/part_007 l.127-146, 167-189) and the   *)
(* statements that call it (l.960-978, 640-672).  A describe object lives  *)
(* in heap under its index; 0 is null.  An item of a tests array is a test *)
(* [id, name, fn, describe] or a reference [fn |-> FALSE, ref] to a        *)
(* describe object; id is the identity of the test object.                 *)
(***************************************************************************)
\* test "name" { body }
TestBlock(name, body) == [type |-> "TestBlock", name |-> name, body |-> body]

\* describe "name" { body }
DescribeBlock(name, body) == [type |-> "DescribeBlock", name |-> name, body |-> body]

\* try { block } catch (e) { }
TryStatement(block) == [type |-> "TryStatement", block |-> block]

\* throw error("...")
ThrowStatement == [type |-> "ThrowStatement"]

\* const _tests = []; let _currentDescribe = null;
StartTests ==
  [name |-> "start", tests |-> <<>>, currentDescribe |-> 0, heap |-> <<>>,
   testCalls |-> 0, threw |-> FALSE]

\* the async arrow of a test block rejects: a statement of its body throws
rejects(body) == \E i \in DOMAIN body : body[i].type = "ThrowStatement"

\* array.push(item) on _tests or on the tests of the describe object at ref
pushItem(st, ref, item) ==
  IF ref # 0 THEN [st EXCEPT !.heap[ref].tests = Append(@, item)]
  ELSE [st EXCEPT !.tests = Append(@, item)]

\* function _test(name, fn) {
\*   const test = { name, fn, describe: _currentDescribe };
\*   if (_currentDescribe) { _currentDescribe.tests.push(test); } else { _tests.push(test); } }
registerTest(st, name, fn) ==
  pushItem([st EXCEPT !.testCalls = @ + 1], st.currentDescribe,
           [id |-> st.testCalls + 1, name |-> name, fn |-> TRUE, passes |-> fn,
            ref |-> st.currentDescribe])

\* _describe up to its call of fn:
\*   const prev = _currentDescribe; _currentDescribe = { name, tests: [], parent: prev };
openDescribe(st, name) ==
  [st EXCEPT !.heap = Append(@, [name |-> name, tests |-> <<>>, parent |-> st.currentDescribe]),
             !.currentDescribe = Len(st.heap) + 1]

\* _describe after fn() returned:
\*   if (prev) { prev.tests.push(_currentDescribe); } else { _tests.push(_currentDescribe); }
\*   _currentDescribe = prev;
\* when fn() threw, none of it runs and the exception leaves _describe
closeDescribe(st, prev) ==
  IF st.threw THEN st
  ELSE [pushItem(st, prev, [id |-> 0, name |-> st.heap[st.currentDescribe].name,
                            fn |-> FALSE, passes |-> FALSE, ref |-> st.currentDescribe])
          EXCEPT !.currentDescribe = prev]

RECURSIVE registerStatements(_, _, _)
\* the statements of a factory, block or callback body run from statement i on, for
\* what they do to the testing runtime; st.threw: an exception is on its way out
registerStatements(body, i, st) ==
  IF i > Len(body) \/ st.threw THEN st
  ELSE LET node == body[i] IN
       registerStatements(body, i + 1,
         CASE node.type = "TestBlock" -> registerTest(st, node.name, ~rejects(node.body))
           [] node.type = "DescribeBlock" ->
                closeDescribe(registerStatements(node.body, 1, openDescribe(st, node.name)),
                              st.currentDescribe)
           [] node.type = "TryStatement" ->
                [registerStatements(node.block, 1, st) EXCEPT !.threw = FALSE]
           [] node.type = "ThrowStatement" -> [st EXCEPT !.threw = TRUE]
           [] OTHER -> st)

RECURSIVE runItem(_, _, _)
RECURSIVE runItems(_, _, _, _)
\* async function runItem(item, indent): a test runs and is counted, a describe's
\* tests are run in order; run is [passed, failed, executed]
runItem(heap, item, run) ==
  IF item.fn
  THEN IF item.passes
       THEN [run EXCEPT !.passed = @ + 1, !.executed = Append(@, item.id)]
       ELSE [run EXCEPT !.failed = @ + 1, !.executed = Append(@, item.id)]
  ELSE runItems(heap, heap[item.ref].tests, 1, run)

\* for (const t of items) await runItem(t)
runItems(heap, items, i, run) ==
  IF i > Len(items) THEN run
  ELSE runItems(heap, items, i + 1, runItem(heap, items[i], run))

\* async function _runTests(): let passed = 0, failed = 0; ...; return { passed, failed }
runTests(st) ==
  runItems(st.heap, st.tests, 1, [passed |-> 0, failed |-> 0, executed |-> <<>>])

\* _module({}): the factory runs and its test and describe statements register
Register ==
  /\ op.name = "start"
  /\ op' = [registerStatements(input, 1, op) EXCEPT !.name = "registered"]
  /\ UNCHANGED <<moduleRegistry, moduleTypeRegistry, input>>

\* await _runTests(), which the runner reaches when the factory returned
RunTests ==
  /\ op.name = "registered" /\ ~op.threw
  /\ op' = [name |-> "runTests", testCalls |-> op.testCalls, result |-> runTests(op)]
  /\ UNCHANGED <<moduleRegistry, moduleTypeRegistry, input>>

(***************************************************************************)
(* SpecTests: test files of up to MaxStmts statements with describes two   *)
(* deep, passing and failing tests, and describes under try.               *)
(***************************************************************************)
TestBlocks == { TestBlock("passes", <<>>), TestBlock("fails", <<ThrowStatement>>) }

InnerDescribes == { DescribeBlock("inner", body) : body \in SeqsUpTo(TestBlocks, 1) }

DescribeBodies ==
  SeqsUpTo(TestBlocks \cup InnerDescribes \cup {ThrowStatement}, MaxStmts)

DescribeBlocks == { DescribeBlock("outer", body) : body \in DescribeBodies }

TestStatements ==
  TestBlocks \cup DescribeBlocks \cup { TryStatement(<<d>>) : d \in DescribeBlocks }

TestSources == SeqsUpTo(TestStatements, MaxStmts)

InitTests ==
  /\ moduleRegistry = EmptyMap
  /\ moduleTypeRegistry = EmptyMap
  /\ op = StartTests
  /\ input \in TestSources

NextTests == Register \/ RunTests

SpecTests == InitTests /\ [][NextTests]_vars

\* how often id stands in the sequence executed
TimesExecuted(executed, id) == Cardinality({ i \in DOMAIN executed : executed[i] = id })

RECURSIVE ThrowsInDescribe(_, _)
\* a describe block of body, at any depth, has a throw among its own statements
ThrowsInDescribe(body, inDescribe) ==
  \E i \in DOMAIN body :
    CASE body[i].type = "ThrowStatement" -> inDescribe
      [] body[i].type = "DescribeBlock" -> ThrowsInDescribe(body[i].body, TRUE)
      [] body[i].type = "TryStatement" -> ThrowsInDescribe(body[i].block, inDescribe)
      [] OTHER -> FALSE

\* C30: after any sequence of nested _describe and _test registrations, _runTests
\* executes every registered test exactly once and reports passed + failed equal to
\* the number of registered tests.
C30_EveryRegisteredTestRunsOnce ==
  op.name = "runTests" =>
    /\ \A id \in 1..op.testCalls : TimesExecuted(op.result.executed, id) = 1
    /\ op.result.passed + op.result.failed = op.testCalls

\* what the runtime does: no test runs twice and the report counts the tests that ran;
\* every registered test runs when no describe callback threw; a test registered after
\* a describe callback threw is never run
TestsRunUnlessDescribeThrew ==
  op.name = "runTests" =>
    /\ \A id \in 1..op.testCalls : TimesExecuted(op.result.executed, id) <= 1
    /\ op.result.passed + op.result.failed = Len(op.result.executed)
    /\ ~ThrowsInDescribe(input, FALSE) =>
         \A id \in 1..op.testCalls : TimesExecuted(op.result.executed, id) = 1
    /\ (input # <<>> /\ ThrowsInDescribe(<<input[1]>>, FALSE)) =>
         op.result.executed = <<>>

====
